---- MODULE Spec2Model ----
(***************************************************************************)
(* A model of hashdb.py: the Worker thread class, the single-flight        *)
(* request lock HASHDB_REQUEST_LOCK and the three pipelines built on them  *)
(* (hash_lookup, hash_scan, hunt_algorithm).                               *)
(*                                                                         *)
(* Eight specifications are given.  Spec is the plugin: the main thread    *)
(* runs the menu actions and the closures handed to execute_sync, each     *)
(* accepted action starts one coroutine Worker.  SpecWorker is the Worker  *)
(* class on its own, driven by a client that starts Workers of either      *)
(* kind and calls Worker.signal on them (the plugin itself never calls     *)
(* signal).  Both use the same thread steps of Worker.run and of the two   *)
(* wrappers, and follow the control flow only: the database is not         *)
(* observed.  SpecData is one trigger of hash_lookup or hash_scan with     *)
(* the data observed: the request arguments, the matches, the dialogs      *)
(* and the enums, members, operand tags and names written to the           *)
(* database.  SpecScan is one hash_scan over a range of ScanLength         *)
(* values.  SpecEnum is add_enums alone, applied call after call to one    *)
(* database.  SpecParse is parse_highlighted_value applied to the texts    *)
(* over a small alphabet.  SpecRange is the range walk scan_range of       *)
(* hash_scan_run applied to small ranges of typed and untyped addresses.   *)
(* SpecStop is one hash_lookup whose Worker is signalled from the main     *)
(* thread, with every thread scheduled fairly.                             *)
(***************************************************************************)
EXTENDS Integers, Sequences, FiniteSets, TLC

\* Number of menu actions triggered in Spec.
MaxTriggers == 2
\* Number of Workers the client of SpecWorker constructs.
MaxWorkers == 1
\* Largest number of entries a scanned range yields.
MaxScan == 2
\* Largest number of entries of a range scanned in SpecData.
MaxItems == 2
\* Largest number of pairs of one add_enums call in SpecEnum.
MaxPairs == 2
\* Largest length of a text of Alphabet highlighted in SpecParse.
MaxText == 3
\* Number of values of the range scanned in SpecScan.
ScanLength == 5
\* Largest number of addresses of a range walked in SpecRange.
MaxRange == 3

None == "None"

\* None where an integer is expected (a hash value, an XOR value)
NoValue == -1

\* None where an enum id is expected
NoEnum == <<>>

\* A non-zero XOR mask the user can enter in the settings
XorMask == 3

VARIABLES
    HASHDB_ALGORITHM,       \* the active algorithm, or None
    HASHDB_ALGORITHM_SIZE,  \* its width in bits, 0 when none is set
    HASHDB_USE_XOR,         \* whether hashes are XORed before they are queried
    HASHDB_XOR_VALUE,       \* the XOR mask
    HASHDB_REQUEST_LOCK,    \* [locked, owner, error]: the threading.Lock
    nTrig,                  \* triggers handled / Workers constructed so far
    trig,                   \* what the last trigger did on the main thread
    worker,                 \* worker[n]: the Worker object of trigger n
    net,                    \* the remote call made last, with its thread
    main_join,              \* the Worker the main thread is joining, 0 if none
    sig,                    \* the last call of Worker.signal: on which Worker,
                            \* where its thread was, what the call did
    db,                     \* the host database: enums, their members, operand
                            \* tags and names; Opaque where it is not observed
    enum_call,              \* SpecEnum: the last call of add_enums with what
                            \* it returned, and the members the calls added
    highlight,              \* SpecParse: what get_highlight gives, and what
                            \* parse_highlighted_value returned for it
    walk                    \* SpecRange: the range and the types scan_range
                            \* is called on, and the entries it returned

vars == <<HASHDB_ALGORITHM, HASHDB_ALGORITHM_SIZE, HASHDB_USE_XOR,
          HASHDB_XOR_VALUE, HASHDB_REQUEST_LOCK,
          nTrig, trig, worker, net, main_join, sig, db, enum_call,
          highlight, walk>>

Ids == 1..MaxTriggers

----------------------------------------------------------------------------
\* threading.Lock

\* HASHDB_REQUEST_LOCK.locked()
locked(l) == l.locked

\* HASHDB_REQUEST_LOCK.acquire() by trigger n (only called when not locked)
acquire(l, n) == [l EXCEPT !.locked = TRUE, !.owner = n]

release_mutant_keep(l) == l

\* HASHDB_REQUEST_LOCK.release(); releasing an unlocked lock raises
\* RuntimeError, recorded in error
release(l) ==
    IF l.locked THEN [l EXCEPT !.locked = FALSE, !.owner = 0]
    ELSE [l EXCEPT !.error = TRUE]

----------------------------------------------------------------------------
\* The remote service (external): what one query can answer.

\* The 'string' object of one match: a plain string, or an API symbol
\* with its name in 'api'
StringMatch == [string |-> "alpha", api |-> "", is_api |-> FALSE]
ApiMatch == [string |-> "gamma", api |-> "beta", is_api |-> TRUE]
NoChoice == [string |-> "", api |-> "", is_api |-> FALSE]

\* r.json().get('hashes', []) of GET /hash/{algorithm}/{value}
HashResponses == {<<>>, <<StringMatch>>, <<ApiMatch>>, <<StringMatch, ApiMatch>>}

\* How a remote call ends: a JSON answer, requests.Timeout, a non-success
\* status (HashDBError; any other exception class the wrappers do not name
\* is handled the same way), or a RuntimeError raised under the call
HttpOutcomes == {"ok", "Timeout", "HashDBError", "RuntimeError"}

\* GET /hash: the catalog, as get_algorithms returns it, sorted by name
Catalog == <<[algorithm |-> "crc32", size |-> "32"],
             [algorithm |-> "fnv1a_64", size |-> "64"],
             [algorithm |-> "odd", size |-> "Unknown"]>>

NetCall(call, thread) == [call |-> call, thread |-> thread]
NoCall == NetCall("none", "none")

\* a ^ b on naturals
RECURSIVE xor(_, _)
xor(a, b) ==
    IF a = 0 /\ b = 0 THEN 0
    ELSE (((a % 2) + (b % 2)) % 2) + 2 * xor(a \div 2, b \div 2)

\* get_strings_from_hash: hash_value ^= xor_value, the value that is put
\* in the URL; the callers pass 0 for a xor_value of None
query_value(hash_value, xor_value) ==
    xor(hash_value, IF xor_value = NoValue THEN 0 ELSE xor_value)

----------------------------------------------------------------------------
\* The host database (IDA): enums with their width, enum members, the
\* enum tags of operands and the names of addresses.  An enum id is
\* modelled by the enum's name; a member name is a pair <<base, index>>
\* for base + '_' + str(index), index 0 standing for the bare name.

ENUM_PREFIX == "hashdb_strings"

EmptyDb ==
    [observed |-> TRUE, enums |-> {}, members |-> {}, tags |-> {},
     names |-> {}, types |-> {}]

\* The database where the model does not observe it.  The pipelines only
\* write to the database and only pass their data along, so their control
\* flow is the same for every database: Spec and SpecWorker follow the
\* control flow on this one value, with one hash value and without the
\* arguments of the requests; SpecData follows the data
Opaque == [EmptyDb EXCEPT !.observed = FALSE]

\* The id of an enum of the database that is not observed
SomeEnum == <<"enum">>

Member(enum, name, value) == [enum |-> enum, name |-> name, value |-> value]

\* generate_enum_name(prefix): prefix + '_' + HASHDB_ALGORITHM
generate_enum_name(prefix) == <<prefix, HASHDB_ALGORITHM>>

\* idc.get_enum_member(enum_id, value, 0, 0) != BADNODE
get_enum_member(d, enum_id, value) ==
    \E m \in d.members : m.enum = enum_id /\ m.value = value

\* idc.add_enum_member(enum_id, name, value): member names are unique in the
\* whole database; 0 is success, 1 is ENUM_MEMBER_ERROR_NAME
add_enum_member(d, enum_id, name, value) ==
    IF \E m \in d.members : m.name = name
    THEN [db |-> d, result |-> 1]
    ELSE [db |-> [d EXCEPT !.members = @ \cup {Member(enum_id, name, value)}],
          result |-> 0]

MAXIMUM_ATTEMPTS == 256

\* No call of add_enums made yet; added collects the members the calls
\* have inserted
NoEnumCall ==
    [enum_name |-> NoEnum, hash_list |-> <<>>, enum_id |-> NoEnum,
     attempts |-> <<>>, added |-> {}]

insert_member_mutant_any(d, enum_id, member_name, value) ==
    LET taken == {m.name[2] : m \in {x \in d.members : x.name[1] = member_name}}
        free == (0..(MAXIMUM_ATTEMPTS - 1)) \ taken
    IN  IF free = {} THEN [db |-> d, attempts |-> MAXIMUM_ATTEMPTS]
        ELSE LET first == CHOOSE i \in free : \A k \in free : i >= k
                 r == add_enum_member(d, enum_id, <<member_name, first>>, value)
             IN  [db |-> r.db, attempts |-> first + 1]

\* for index in range(MAXIMUM_ATTEMPTS): the bare name first, then
\* name_1, name_2, ...; break at the first success.  An attempt fails
\* exactly when a member has its name (add_enum_member) and a failed attempt
\* leaves the database as it is, so the loop ends at the first index whose
\* name is free; when all MAXIMUM_ATTEMPTS names are taken nothing is
\* inserted.  attempts is the number of add_enum_member calls made
insert_member(d, enum_id, member_name, value) ==
    LET taken == {m.name[2] : m \in {x \in d.members : x.name[1] = member_name}}
        free == (0..(MAXIMUM_ATTEMPTS - 1)) \ taken
    IN  IF free = {} THEN [db |-> d, attempts |-> MAXIMUM_ATTEMPTS]
        ELSE LET first == CHOOSE i \in free : \A k \in free : i <= k
                 r == add_enum_member(d, enum_id, <<member_name, first>>, value)
             IN  [db |-> r.db, attempts |-> first + 1]

RECURSIVE insert_all_mutant_noskip(_, _, _, _)
insert_all_mutant_noskip(d, enum_id, hash_list, attempts) ==
    IF hash_list = <<>> THEN [db |-> d, attempts |-> attempts]
    ELSE LET next == insert_member(d, enum_id, Head(hash_list)[1],
                                   Head(hash_list)[2])
         IN  insert_all_mutant_noskip(next.db, enum_id, Tail(hash_list),
                                      Append(attempts, next.attempts))

\* for member_name, value in hash_list: a value the enum already has is
\* skipped; attempts lists the number of add_enum_member calls per pair
RECURSIVE insert_all(_, _, _, _)
insert_all(d, enum_id, hash_list, attempts) ==
    IF hash_list = <<>> THEN [db |-> d, attempts |-> attempts]
    ELSE LET member_name == Head(hash_list)[1]
             value == Head(hash_list)[2]
             next == IF get_enum_member(d, enum_id, value)
                     THEN [db |-> d, attempts |-> 0]
                     ELSE insert_member(d, enum_id, member_name, value)
         IN  insert_all(next.db, enum_id, Tail(hash_list),
                        Append(attempts, next.attempts))

\* add_enums(enum_name, hash_list, enum_size): the enum is created or found
\* (found is FALSE when the host can do neither, and None is returned), its
\* width is set, the pairs are inserted; the enum id is returned
add_enums(d, enum_name, hash_list, enum_size, found) ==
    IF ~found THEN [db |-> d, enum_id |-> NoEnum, attempts |-> <<>>]
    ELSE IF ~d.observed
    THEN [db |-> d, enum_id |-> SomeEnum, attempts |-> <<>>]
    ELSE LET others == {e \in d.enums : e.name # enum_name}
             sized == [d EXCEPT !.enums =
                           others \cup {[name |-> enum_name, width |-> enum_size]}]
             r == insert_all(sized, enum_name, hash_list, <<>>)
         IN  [db |-> r.db, enum_id |-> enum_name, attempts |-> r.attempts]

\* ida_bytes.op_enum(ea, n, enum_id, 0): operand n of the item at ea is
\* shown as a member of the enum
op_enum(d, ea, n, enum_id) ==
    [d EXCEPT !.tags = {t \in @ : ~(t.ea = ea /\ t.n = n)}
                       \cup {[ea |-> ea, n |-> n, enum |-> enum_id]}]

\* idc.here(): the address under the cursor
Here == 0

\* The item under the cursor: code or data, and the values of its first two
\* operands
Items == [is_code : BOOLEAN, op0 : {0, 5}, op1 : {0, 5}]

\* make_const_enum(enum_id, hash_value) on the item under the cursor
make_const_enum(d, enum_id, hash_value, item) ==
    IF ~d.observed THEN d
    ELSE IF item.is_code
    THEN IF item.op0 = hash_value THEN op_enum(d, Here, 0, enum_id)
         ELSE IF item.op1 = hash_value THEN op_enum(d, Here, 1, enum_id)
         ELSE d
    ELSE op_enum(d, Here, 0, enum_id)

----------------------------------------------------------------------------
\* parse_highlighted_value.  A text is the sequence of its characters.

\* string.octdigits, string.digits, string.hexdigits
octdigits == <<"0", "1", "2", "3", "4", "5", "6", "7">>
digits == octdigits \o <<"8", "9">>
hexdigits == digits \o <<"a", "b", "c", "d", "e", "f">>
                    \o <<"A", "B", "C", "D", "E", "F">>

\* character in characters
in(character, characters) ==
    \E i \in 1..Len(characters) : characters[i] = character

\* identifier.endswith(suffix), identifier.startswith(prefix)
endswith(identifier, suffix) ==
    /\ Len(identifier) >= Len(suffix)
    /\ SubSeq(identifier, Len(identifier) - Len(suffix) + 1, Len(identifier))
          = suffix

startswith(identifier, prefix) ==
    /\ Len(identifier) >= Len(prefix)
    /\ SubSeq(identifier, 1, Len(prefix)) = prefix

\* identifier[:-1], identifier[2:]
drop_last(identifier) == SubSeq(identifier, 1, Len(identifier) - 1)
drop_two(identifier) == SubSeq(identifier, 3, Len(identifier))

typed_mutant_q(identifier) ==
    IF endswith(identifier, <<"h">>)
    THEN [identifier |-> drop_last(identifier), type |-> "hex"]
    ELSE IF startswith(identifier, <<"0", "x">>)
    THEN [identifier |-> drop_two(identifier), type |-> "hex"]
    ELSE IF endswith(identifier, <<"o">>) \/ endswith(identifier, <<"q">>)
    THEN [identifier |-> drop_last(identifier), type |-> "octal"]
    ELSE IF endswith(identifier, <<"b">>)
    THEN [identifier |-> drop_last(identifier), type |-> "binary"]
    ELSE [identifier |-> identifier, type |-> "decimal"]

\* The if / elif chain on the affixes: the type of the value and the
\* identifier without the affix that gave it
typed(identifier) ==
    IF endswith(identifier, <<"h">>)
    THEN [identifier |-> drop_last(identifier), type |-> "hex"]
    ELSE IF startswith(identifier, <<"0", "x">>)
    THEN [identifier |-> drop_two(identifier), type |-> "hex"]
    ELSE IF endswith(identifier, <<"o">>)
    THEN [identifier |-> drop_last(identifier), type |-> "octal"]
    ELSE IF endswith(identifier, <<"b">>)
    THEN [identifier |-> drop_last(identifier), type |-> "binary"]
    ELSE [identifier |-> identifier, type |-> "decimal"]

character_set(type) ==
    CASE type = "binary" -> <<"0", "1">>
      [] type = "octal" -> octdigits
      [] type = "decimal" -> digits
      [] type = "hex" -> hexdigits

types(type) ==
    CASE type = "binary" -> 2
      [] type = "octal" -> 8
      [] type = "decimal" -> 10
      [] type = "hex" -> 16

trim_mutant_filter(identifier, type) ==
    SelectSeq(identifier, LAMBDA character : in(character, character_set(type)))

\* for index, character in enumerate(identifier): the identifier is cut at
\* the first character that is not in the character set of the type
trim(identifier, type) ==
    LET invalid == {index \in 1..Len(identifier) :
                       ~in(identifier[index], character_set(type))}
    IN  IF invalid = {} THEN identifier
        ELSE LET first == CHOOSE i \in invalid : \A k \in invalid : i <= k
             IN  SubSeq(identifier, 1, first - 1)

\* The value int() gives a digit: its place in hexdigits, the capital
\* letters counting as the small ones
digit_value(character) ==
    LET place == CHOOSE i \in 1..Len(hexdigits) : hexdigits[i] = character
    IN  IF place > 16 THEN place - 7 ELSE place - 1

\* int(identifier, base) of a non-empty identifier of digits of the base
RECURSIVE int(_, _)
int(identifier, base) ==
    IF identifier = <<>> THEN 0
    ELSE int(drop_last(identifier), base) * base
            + digit_value(identifier[Len(identifier)])

\* ida_kernwin.get_highlight(v): None, or the text with its flags
NoThing == [some |-> FALSE, text |-> <<>>, flags |-> 0]

\* parse_highlighted_value(), given what get_highlight returns; NoValue
\* stands for None
parse_highlighted_value(thing) ==
    IF ~(thing.some /\ thing.flags # 0) THEN NoValue
    ELSE LET t == typed(thing.text)
             identifier == trim(t.identifier, t.type)
         IN  IF identifier = <<>> THEN NoValue
             ELSE int(identifier, types(t.type))

\* No call of parse_highlighted_value made
NoHighlight == [thing |-> NoThing, value |-> NoValue, returned |-> FALSE]

----------------------------------------------------------------------------
\* The range walk of hash_scan_run.  The items of the database are given by
\* what idaapi.idc_guess_type answers at each address.

\* idaapi.idc_guess_type(ea): the four integer types, another type, or the
\* empty string where IDA guesses none
GuessedTypes == {"__int64", "int", "__int16", "char", "double", ""}

\* determine_highlighted_type_size, given the guessed type
determine_highlighted_type_size(type) ==
    CASE type = "__int64" -> 8
      [] type = "int" -> 4
      [] type = "__int16" -> 2
      [] type = "char" -> 1
      [] OTHER -> 0

\* The byte stored at an address (the same bytes in every database)
byte_at(ea) == (7 * ea + 1) % 256

\* ida_bytes.get_64bit / get_32bit / get_16bit / get_byte: the value as the
\* sequence of its size bytes, lowest first
get_bits(ea, size) == [k \in 1..size |-> byte_at(ea + k - 1)]

\* What read_integer_from_db gives back: [value, size, was_type_valid], or
\* the HashDBError of its last line
Read(value, size, was_type_valid) ==
    [value |-> value, size |-> size, was_type_valid |-> was_type_valid,
     raised |-> FALSE]

HashDBError(ea) ==
    [value |-> <<>>, size |-> 0, was_type_valid |-> FALSE, raised |-> TRUE]

read_integer_from_db_mutant_byte(guessed, ea, default_size) ==
    LET type_size == determine_highlighted_type_size(guessed[ea])
    IN  IF type_size # 0 THEN Read(get_bits(ea, type_size), type_size, TRUE)
        ELSE Read(get_bits(ea, 1), 1, FALSE)

\* read_integer_from_db(ea, default_size), given the guessed types
read_integer_from_db(guessed, ea, default_size) ==
    LET type_size == determine_highlighted_type_size(guessed[ea])
        none == type_size = 0
    IN  IF type_size = 8 \/ (none /\ default_size = 8)
        THEN Read(get_bits(ea, 8), 8, ~none)
        ELSE IF type_size = 4 \/ (none /\ default_size = 4)
        THEN Read(get_bits(ea, 4), 4, ~none)
        ELSE IF type_size = 2 \/ (none /\ default_size = 2)
        THEN Read(get_bits(ea, 2), 2, ~none)
        ELSE IF type_size = 1 \/ (none /\ default_size = 0)
                \/ (none /\ default_size = 1)
        THEN Read(get_bits(ea, 1), 1, ~none)
        ELSE HashDBError(ea)

\* One pass of the loop of scan_range at ea: the first read, and the second
\* one with the width of the algorithm when convert_values is set and the
\* type was not valid
scan_read(guessed, ea, convert_values, algorithm_size) ==
    LET first == read_integer_from_db(guessed, ea, 0)
    IN  IF convert_values /\ ~first.was_type_valid
        THEN read_integer_from_db(guessed, ea, algorithm_size \div 8)
        ELSE first

scan_range_mutant_overlap(guessed, ea, end, convert_values, algorithm_size) ==
    [i \in 1..(end - ea) |->
        LET r == scan_read(guessed, ea + i - 1, convert_values, algorithm_size)
        IN  [ea |-> ea + i - 1, hash_value |-> r.value, size |-> r.size]]

\* scan_range(start, end), from ea on: the entries it appends; the types of
\* the database are only read
RECURSIVE scan_range(_, _, _, _, _)
scan_range(guessed, ea, end, convert_values, algorithm_size) ==
    IF ~(ea < end) THEN <<>>
    ELSE LET r == scan_read(guessed, ea, convert_values, algorithm_size)
         IN  <<[ea |-> ea, hash_value |-> r.value, size |-> r.size]>>
             \o scan_range(guessed, ea + r.size, end, convert_values,
                           algorithm_size)

\* No call of scan_range made
NoWalk ==
    [guessed |-> <<>>, start |-> 0, end |-> 0, convert_values |-> FALSE,
     returned |-> FALSE, hash_values |-> <<>>, guessed_after |-> <<>>]

----------------------------------------------------------------------------
\* class Worker(Thread)

NoWorker ==
    [pipeline |-> "none", kind |-> "none", timeout |-> FALSE, pc |-> "none",
     done_calls |-> 0, error_calls |-> 0, releases |-> 0,
     raised |-> "none", exc |-> "none", stop |-> FALSE, async_exc |-> FALSE,
     is_none |-> FALSE, timed_out |-> FALSE, matches |-> <<>>,
     entries |-> <<>>, algos |-> <<>>, idx |-> 0, convert_values |-> FALSE,
     chosen |-> NoChoice, work |-> "none", cb_async |-> FALSE,
     algorithm |-> None, hash_value |-> NoValue, xor_value |-> NoValue,
     query |-> NoValue, shown |-> <<>>, enum_id |-> NoEnum, host |-> "none",
     db0 |-> Opaque, cancelled |-> "none", timeout_given |-> 0]

\* Worker(target=...): the object exists, the thread is not started
Worker(pipeline, kind) ==
    [NoWorker EXCEPT !.pipeline = pipeline, !.kind = kind, !.pc = "init"]

start_mutant_any_target(wr, timeout) ==
    [wr EXCEPT !.timeout = (timeout # 0), !.timeout_given = timeout,
               !.pc = "started"]

\* Worker.start: the timeout is kept only for a coroutine target and when it
\* is non-zero; Thread.start() makes the thread alive.  timeout_given keeps
\* the argument of the call (for the properties)
start(wr, timeout) ==
    [wr EXCEPT !.timeout = (wr.kind = "coroutine" /\ timeout # 0),
               !.timeout_given = timeout,
               !.pc = "started"]

is_alive_mutant_always(wr) == TRUE

\* Thread.is_alive()
is_alive(wr) == wr.pc \notin {"none", "init", "dead"}

\* self.__loop is not None and self.__coroutine_target is not None: both are
\* set from the first lines of __async_wrapper until its finally clause
\* deletes them
has_loop(wr) ==
    /\ wr.kind = "coroutine"
    /\ wr.pc \notin {"none", "init", "started", "exiting", "dead"}

\* loop.is_running(): true inside loop.run_until_complete, which runs the
\* target and, when they are coroutine functions, the callbacks
loop_is_running(wr) ==
    /\ wr.kind = "coroutine"
    /\ \/ wr.pc = "target"
       \/ wr.cb_async /\ wr.pc \in {"done_cb", "error_cb"}

\* The exception classes a wrapper hands to the error callback:
\* except SystemExit (__wrapper),
\* except (CancelledError, TimeoutError, RuntimeError) (__async_wrapper)
expected(kind) ==
    IF kind = "coroutine" THEN {"CancelledError", "TimeoutError", "RuntimeError"}
    ELSE {"SystemExit"}

\* The target returned: the wrapper invokes the done callback
invoke_done(wr) == [wr EXCEPT !.pc = "done_cb", !.done_calls = @ + 1]

\* An exception raised inside the wrapper's try block, by the target or by
\* the done callback: an expected class invokes the error callback, any
\* other is re-raised through the finally clause
raise_in_try(wr, e) ==
    IF e \in expected(wr.kind)
    THEN [wr EXCEPT !.pc = "error_cb", !.error_calls = @ + 1, !.exc = e]
    ELSE [wr EXCEPT !.pc = "finally", !.raised = e]

\* How the work of the target ended (kept for the properties)
ends(wr, how) == [wr EXCEPT !.work = how]

call_done_mutant_exact(wr, nargs, maxargs) ==
    IF nargs = maxargs THEN invoke_done(wr) ELSE raise_in_try(wr, "TypeError")

\* done_callback(*result) with a result of nargs values, for a callback that
\* takes at most maxargs: a call that does not fit raises TypeError inside
\* the try block
call_done(wr, nargs, maxargs) ==
    IF nargs <= maxargs THEN invoke_done(wr) ELSE raise_in_try(wr, "TypeError")

\* An exception raised while the error callback runs (inside the except
\* clause): it propagates through the finally clause
raise_in_handler(wr, e) == [wr EXCEPT !.pc = "finally", !.raised = e]

\* A callback returned, its locals are gone: the wrapper goes on to its
\* finally clause
callback_returns(wr) ==
    [wr EXCEPT !.pc = "finally", !.is_none = FALSE, !.timed_out = FALSE,
               !.matches = <<>>, !.entries = <<>>, !.algos = <<>>, !.idx = 0,
               !.convert_values = FALSE, !.chosen = NoChoice,
               !.algorithm = None, !.hash_value = NoValue,
               !.xor_value = NoValue, !.query = NoValue, !.shown = <<>>,
               !.enum_id = NoEnum, !.host = "none"]

Set(w, wr) == worker' = [worker EXCEPT ![w] = wr]

\* Worker.run and the first lines of the wrapper it selects: a coroutine
\* target gets its own event loop, a blocking target is called at once
run(w) ==
    /\ worker[w].pc = "started"
    /\ ~worker[w].async_exc
    /\ Set(w, [worker[w] EXCEPT !.pc =
                   IF worker[w].kind = "coroutine" THEN "loop_set" ELSE "target"])
    /\ UNCHANGED <<HASHDB_ALGORITHM, HASHDB_ALGORITHM_SIZE, HASHDB_USE_XOR,
                   HASHDB_XOR_VALUE, HASHDB_REQUEST_LOCK, nTrig, trig, net,
                   main_join, sig, db, enum_call,
                   highlight, walk>>

\* __async_wrapper: loop.run_until_complete(coroutine) begins
run_until_complete(w) ==
    /\ worker[w].pc = "loop_set"
    /\ ~worker[w].async_exc
    /\ Set(w, [worker[w] EXCEPT !.pc = "target"])
    /\ UNCHANGED <<HASHDB_ALGORITHM, HASHDB_ALGORITHM_SIZE, HASHDB_USE_XOR,
                   HASHDB_XOR_VALUE, HASHDB_REQUEST_LOCK, nTrig, trig, net,
                   main_join, sig, db, enum_call,
                   highlight, walk>>

\* The wrapper is left, by its last line or by an exception: of the Worker
\* object only its kind remains
leave(wr) == [Worker("none", wr.kind) EXCEPT !.pc = "exiting"]

\* The finally clause of either wrapper: the loop is closed and the private
\* attributes are deleted
finally(w) ==
    /\ worker[w].pc = "finally"
    /\ ~worker[w].async_exc
    /\ Set(w, leave(worker[w]))
    /\ UNCHANGED <<HASHDB_ALGORITHM, HASHDB_ALGORITHM_SIZE, HASHDB_USE_XOR,
                   HASHDB_XOR_VALUE, HASHDB_REQUEST_LOCK, nTrig, trig, net,
                   main_join, sig, db, enum_call,
                   highlight, walk>>

\* Thread.run returns and the thread ends
thread_exit(w) ==
    /\ worker[w].pc = "exiting"
    /\ Set(w, [worker[w] EXCEPT !.pc = "dead", !.async_exc = FALSE])
    /\ UNCHANGED <<HASHDB_ALGORITHM, HASHDB_ALGORITHM_SIZE, HASHDB_USE_XOR,
                   HASHDB_XOR_VALUE, HASHDB_REQUEST_LOCK, nTrig, trig, net,
                   main_join, sig, db, enum_call,
                   highlight, walk>>

----------------------------------------------------------------------------
\* Settings

\* int(size) for the size strings of the catalog; -1 stands for the
\* ValueError int() raises on 'Unknown'
int_of(size) ==
    CASE size = "32" -> 32
      [] size = "64" -> 64
      [] OTHER -> -1

\* str(HASHDB_ALGORITHM_SIZE)
str_of(size) ==
    CASE size = 32 -> "32"
      [] size = 64 -> "64"
      [] OTHER -> "0"

\* set_algorithm(algorithm, size): the new (HASHDB_ALGORITHM,
\* HASHDB_ALGORITHM_SIZE) and what the call did
set_algorithm(algorithm, size) ==
    LET n == int_of(size) IN
    IF n = -1
    THEN [result |-> "ValueError", alg |-> HASHDB_ALGORITHM,
          size |-> HASHDB_ALGORITHM_SIZE]
    ELSE IF n \notin {32, 64} \/ n % 8 # 0
    THEN [result |-> "False", alg |-> HASHDB_ALGORITHM,
          size |-> HASHDB_ALGORITHM_SIZE]
    ELSE [result |-> "True", alg |-> algorithm, size |-> n]

\* The XOR check box and the XOR value of the settings form
XorSetting(use, value) == [use |-> use, value |-> value]

\* What the user can leave in the two XOR fields: the form opens with the
\* current settings; where the database is not observed the hash values
\* are not either, and the fields are left as they are
XorForms ==
    IF ~db.observed THEN {XorSetting(HASHDB_USE_XOR, HASHDB_XOR_VALUE)}
    ELSE {XorSetting(FALSE, 0), XorSetting(TRUE, XorMask)}

\* What the user does with the settings form: Ok or Cancel, whether
\* Refresh Algorithms was pressed (and how the catalog request ended), the
\* row selected in the chooser (0: none) and the XOR fields
SettingsInputs ==
    {f \in [ok : BOOLEAN, refresh : BOOLEAN, http : {"ok", "HashDBError"},
            sel : 0..Len(Catalog), xor : XorForms] :
        /\ ~f.refresh => f.http = "ok"
        /\ ~f.ok => f.sel = 0
        /\ ~f.ok => f.xor = XorSetting(HASHDB_USE_XOR, HASHDB_XOR_VALUE)
        /\ ~(f.refresh /\ f.http = "ok") => f.sel <= 1}

\* The inputs of a dialog that is shown only under a condition
Cancel ==
    [ok |-> FALSE, refresh |-> FALSE, http |-> "ok", sel |-> 0,
     xor |-> XorSetting(HASHDB_USE_XOR, HASHDB_XOR_VALUE)]
InputsIf(shown) == IF shown THEN SettingsInputs ELSE {Cancel}

\* hashdb_settings_t.OnBtnRefresh: get_algorithms is called by the form's
\* button handler, on the thread that shows the form
OnBtnRefresh(items, form) ==
    IF form.refresh /\ form.http = "ok" THEN Catalog ELSE items

settings_show_mutant_accept(items, form) ==
    [result |-> "True", alg |-> HASHDB_ALGORITHM,
     size |-> HASHDB_ALGORITHM_SIZE, use_xor |-> HASHDB_USE_XOR,
     xor_value |-> HASHDB_XOR_VALUE, net |-> net, dialogs |-> 1]

\* hashdb_settings_t.show(algorithms=items), run on the main thread:
\* result is what show returns, or the exception that leaves it; Ok saves
\* the XOR fields before the selection is looked at
settings_show(items, form) ==
    LET shown == OnBtnRefresh(items, form)
        calls == IF form.refresh THEN NetCall("get_algorithms", "main") ELSE net
        keep == [result |-> "False", alg |-> HASHDB_ALGORITHM,
                 size |-> HASHDB_ALGORITHM_SIZE, use_xor |-> HASHDB_USE_XOR,
                 xor_value |-> HASHDB_XOR_VALUE, net |-> calls, dialogs |-> 1]
        saved == [keep EXCEPT !.use_xor = form.xor.use,
                              !.xor_value = form.xor.value]
    IN  IF ~form.ok THEN keep
        ELSE IF form.sel = 0 \/ form.sel > Len(shown) THEN saved
        ELSE LET r == set_algorithm(shown[form.sel].algorithm, shown[form.sel].size)
             IN  [saved EXCEPT
                      !.result = IF r.result = "ValueError" THEN "ValueError"
                                 ELSE "True",
                      !.alg = r.alg, !.size = r.size]

\* global_settings(): the plugin's run entry shows the form with the active
\* algorithm as the only row
global_settings ==
    /\ main_join = 0
    /\ \E form \in SettingsInputs :
         LET items == IF HASHDB_ALGORITHM # None
                      THEN <<[algorithm |-> HASHDB_ALGORITHM,
                              size |-> str_of(HASHDB_ALGORITHM_SIZE)]>>
                      ELSE <<>>
             r == settings_show(items, form)
         IN  /\ HASHDB_ALGORITHM' = r.alg
             /\ HASHDB_ALGORITHM_SIZE' = r.size
             /\ HASHDB_USE_XOR' = r.use_xor
             /\ HASHDB_XOR_VALUE' = r.xor_value
             /\ net' = r.net
    /\ UNCHANGED <<HASHDB_REQUEST_LOCK, nTrig, trig, worker, main_join, sig,
                   db, enum_call,
                   highlight, walk>>

----------------------------------------------------------------------------
\* The three triggers share one shape: reject while the lock is held, else
\* acquire, run the pre-flight part, and release when it started no Worker.

HASHDB_REQUEST_TIMEOUT == 15

NoTrigger ==
    [n |-> 0, fn |-> "none", outcome |-> "none", released |-> 0, dialogs |-> 0]

rejected_mutant_never(l) == FALSE

\* if HASHDB_REQUEST_LOCK.locked(): ... return
rejected(l) == locked(l)

RunResult_mutant_keep(outcome, release_lock, s) ==
    [outcome |-> outcome, release_lock |-> FALSE,
     start |-> (outcome = "started"), alg |-> s.alg, size |-> s.size,
     use_xor |-> s.use_xor, xor_value |-> s.xor_value,
     net |-> s.net, dialogs |-> s.dialogs]

\* What a *_run function hands back: release_lock is its return value (it is
\* FALSE too when an exception leaves the function), start tells whether
\* worker.start was reached
RunResult(outcome, release_lock, s) ==
    [outcome |-> outcome, release_lock |-> release_lock,
     start |-> (outcome = "started"), alg |-> s.alg, size |-> s.size,
     use_xor |-> s.use_xor, xor_value |-> s.xor_value,
     net |-> s.net, dialogs |-> s.dialogs]

NoDialog ==
    [result |-> "True", alg |-> HASHDB_ALGORITHM, size |-> HASHDB_ALGORITHM_SIZE,
     use_xor |-> HASHDB_USE_XOR, xor_value |-> HASHDB_XOR_VALUE,
     net |-> net, dialogs |-> 0]

\* The trigger found the lock held: it informs the user and returns
reject ==
    /\ main_join = 0
    /\ nTrig < MaxTriggers
    /\ nTrig' = nTrig + 1
    /\ trig' = [NoTrigger EXCEPT !.n = nTrig + 1, !.outcome = "rejected"]
    /\ UNCHANGED <<HASHDB_ALGORITHM, HASHDB_ALGORITHM_SIZE, HASHDB_USE_XOR,
                   HASHDB_XOR_VALUE, HASHDB_REQUEST_LOCK, worker, net,
                   main_join, sig, db, enum_call,
                   highlight, walk>>

\* The rest of hash_lookup / hash_scan / hunt_algorithm, around the result r
\* of their *_run function; wr is the Worker that *_run starts
accept(r, wr) ==
    LET n == nTrig + 1
        held == acquire(HASHDB_REQUEST_LOCK, n)
    IN  /\ main_join = 0
        /\ nTrig < MaxTriggers
        /\ nTrig' = n
        /\ HASHDB_REQUEST_LOCK' = IF r.release_lock THEN release(held) ELSE held
        /\ trig' = [n |-> n, fn |-> wr.pipeline, outcome |-> r.outcome,
                    released |-> IF r.release_lock THEN 1 ELSE 0,
                    dialogs |-> r.dialogs]
        /\ worker' = IF r.start
                     THEN [worker EXCEPT ![n] = start(wr, HASHDB_REQUEST_TIMEOUT)]
                     ELSE worker
        /\ HASHDB_ALGORITHM' = r.alg
        /\ HASHDB_ALGORITHM_SIZE' = r.size
        /\ HASHDB_USE_XOR' = r.use_xor
        /\ HASHDB_XOR_VALUE' = r.xor_value
        /\ net' = r.net
        /\ UNCHANGED <<main_join, sig, db, enum_call,
                   highlight, walk>>

release_and_return_mutant_hold(w, wr) ==
    /\ UNCHANGED HASHDB_REQUEST_LOCK
    /\ Set(w, callback_returns(wr))

\* HASHDB_REQUEST_LOCK.release() followed by return, in a pipeline callback
\* on the Worker thread
release_and_return(w, wr) ==
    /\ HASHDB_REQUEST_LOCK' = release(HASHDB_REQUEST_LOCK)
    /\ Set(w, callback_returns([wr EXCEPT !.releases = @ + 1]))

request_timeout_mutant_raise(wr) ==
    raise_in_try(ends([wr EXCEPT !.timed_out = TRUE], "raised"), "Timeout")

\* except requests.Timeout: ... return None -- the request coroutine ends
\* normally with None, which the wrapper hands to the done callback
request_timeout(wr) ==
    invoke_done(ends([wr EXCEPT !.is_none = TRUE, !.timed_out = TRUE], "returned"))

----------------------------------------------------------------------------
\* Hash lookup

\* What parse_highlighted_value can return for the highlighted text: no
\* value, or the value
HashValue == 5
Parsed == {NoValue, HashValue}

\* hash_lookup_run(timeout); hash_value is what parse_highlighted_value
\* returned
hash_lookup_run(form, hash_value) ==
    LET s == IF HASHDB_ALGORITHM = None THEN settings_show(<<>>, form)
             ELSE NoDialog
    IN  IF s.result = "ValueError" THEN RunResult("exception", FALSE, s)
        ELSE IF s.result = "False" THEN RunResult("config_cancelled", TRUE, s)
        ELSE IF hash_value = NoValue THEN RunResult("invalid_selection", TRUE, s)
        ELSE RunResult("started", FALSE, s)

\* The arguments a *_run function hands to the target of its Worker: the
\* algorithm and the XOR value are those of the settings as *_run finds
\* them; db0 keeps the database of that moment for the properties
launched(wr, r) ==
    IF ~db.observed THEN wr
    ELSE [wr EXCEPT !.algorithm = r.alg,
                    !.xor_value = IF r.use_xor THEN r.xor_value ELSE NoValue,
                    !.db0 = db]

\* hash_lookup(): the menu action, on the main thread
hash_lookup ==
    IF rejected(HASHDB_REQUEST_LOCK) THEN reject
    ELSE \E form \in InputsIf(HASHDB_ALGORITHM = None), hash_value \in Parsed :
             LET r == hash_lookup_run(form, hash_value)
             IN  accept(r, launched([Worker("lookup", "coroutine") EXCEPT
                                         !.hash_value = hash_value], r))

\* hash_lookup_request: one remote query on the Worker thread, without any
\* await
hash_lookup_request(w) ==
    /\ worker[w].pipeline = "lookup"
    /\ worker[w].pc = "target"
    /\ \E http \in HttpOutcomes, hashes \in HashResponses :
         LET wr == [worker[w] EXCEPT
                        !.query = query_value(worker[w].hash_value,
                                              worker[w].xor_value)]
         IN  Set(w, CASE http = "Timeout" -> request_timeout(wr)
                      [] http = "ok" /\ hashes = <<>> ->
                             invoke_done(ends([wr EXCEPT !.is_none = TRUE],
                                              "returned"))
                      [] http = "ok" /\ hashes # <<>> ->
                             invoke_done(ends([wr EXCEPT !.matches = hashes],
                                              "returned"))
                      [] OTHER -> raise_in_try(ends(wr, "raised"), http))
    /\ net' = NetCall("get_strings_from_hash", "worker")
    /\ UNCHANGED <<HASHDB_ALGORITHM, HASHDB_ALGORITHM_SIZE, HASHDB_USE_XOR,
                   HASHDB_XOR_VALUE, HASHDB_REQUEST_LOCK, nTrig, trig,
                   main_join, sig, db, enum_call,
                   highlight, walk>>

\* The string a match is shown and stored under: the API name of an API
\* symbol, the string otherwise
display(m) == IF m.is_api THEN m.api ELSE m.string

\* [*collisions.keys()]: the display strings of the matches, each once, in
\* the order of their first occurrence
RECURSIVE collision_strings(_)
collision_strings(hashes) ==
    IF hashes = <<>> THEN <<>>
    ELSE LET front == collision_strings(SubSeq(hashes, 1, Len(hashes) - 1))
             key == display(hashes[Len(hashes)])
         IN  IF \E i \in 1..Len(front) : front[i] = key THEN front
             ELSE Append(front, key)

\* collisions[selected_string]: the last match with that display string
collision(hashes, key) ==
    LET last == CHOOSE i \in 1..Len(hashes) :
                    /\ display(hashes[i]) = key
                    /\ \A j \in (i + 1)..Len(hashes) : display(hashes[j]) # key
    IN  hashes[last]

\* The member name of a match; an empty one becomes "empty_string"
string_value(m) == IF display(m) = "" THEN "empty_string" ELSE display(m)

execute_sync_mutant_inline(wr) == [wr EXCEPT !.host = "worker"]

\* ida_kernwin.execute_sync(closure, MFF_FAST) by a callback: the closure
\* runs on the main thread while the calling thread waits for it; host
\* keeps the thread that ran the last closure of the callback
execute_sync(wr) == [wr EXCEPT !.host = "main"]

\* A dialog shown by a callback, with the rows it lists
Dialog(form, items) == [form |-> form, items |-> items]

\* The user closed a dialog of the callback with Cancel (kept for the
\* properties until the wrapper is left)
cancel(wr, form) == [wr EXCEPT !.cancelled = form]

hash_lookup_done_mutant_first(w) ==
    LET wr == worker[w] IN
    /\ wr.pipeline = "lookup"
    /\ wr.pc = "done_cb"
    /\ IF wr.is_none
       THEN release_and_return(w, wr)
       ELSE /\ Set(w, [wr EXCEPT !.chosen = wr.matches[1], !.pc = "add_enums"])
            /\ UNCHANGED HASHDB_REQUEST_LOCK
    /\ UNCHANGED <<HASHDB_ALGORITHM, HASHDB_ALGORITHM_SIZE, HASHDB_USE_XOR,
                   HASHDB_XOR_VALUE, nTrig, trig, net, main_join, sig, db, enum_call,
                   highlight, walk>>

\* hash_lookup_done -> hash_lookup_done_handler, up to its first
\* execute_sync
hash_lookup_done(w) ==
    LET wr == worker[w] IN
    /\ wr.pipeline = "lookup"
    /\ wr.pc = "done_cb"
    /\ IF wr.is_none
       THEN release_and_return(w, wr)
       ELSE /\ Set(w, IF Len(wr.matches) = 1
                      THEN [wr EXCEPT !.chosen = wr.matches[1], !.pc = "add_enums"]
                      ELSE [wr EXCEPT !.pc = "match_select_show"])
            /\ UNCHANGED HASHDB_REQUEST_LOCK
    /\ UNCHANGED <<HASHDB_ALGORITHM, HASHDB_ALGORITHM_SIZE, HASHDB_USE_XOR,
                   HASHDB_XOR_VALUE, nTrig, trig, net, main_join, sig, db, enum_call,
                   highlight, walk>>

lookup_match_select_show_mutant_default(w) ==
    LET wr == worker[w]
        keys == collision_strings(wr.matches)
    IN  /\ wr.pipeline = "lookup"
        /\ wr.pc = "match_select_show"
        /\ main_join = 0
        /\ \E sel \in 0..Len(keys) :
             LET key == IF sel = 0 THEN keys[1] ELSE keys[sel]
             IN  Set(w, execute_sync(
                        [wr EXCEPT !.cancelled = IF sel = 0 THEN "match_select"
                                                 ELSE "none",
                                   !.chosen = collision(wr.matches, key),
                                   !.shown = Append(@, Dialog("match_select", keys)),
                                   !.pc = "add_enums"]))
        /\ UNCHANGED <<HASHDB_ALGORITHM, HASHDB_ALGORITHM_SIZE, HASHDB_USE_XOR,
                       HASHDB_XOR_VALUE, HASHDB_REQUEST_LOCK, nTrig, trig, net,
                       main_join, sig, db, enum_call,
                   highlight, walk>>

\* execute_sync(match_select_show): the collision dialog on the main thread;
\* sel = 0 is Cancel
lookup_match_select_show(w) ==
    LET wr == worker[w]
        keys == collision_strings(wr.matches)
    IN  /\ wr.pipeline = "lookup"
        /\ wr.pc = "match_select_show"
        /\ main_join = 0
        /\ \E sel \in 0..Len(keys) :
             IF sel = 0
             THEN release_and_return(w, cancel(wr, "match_select"))
             ELSE /\ Set(w, execute_sync(
                            [wr EXCEPT !.chosen = collision(wr.matches, keys[sel]),
                                       !.shown = Append(@, Dialog("match_select", keys)),
                                       !.pc = "add_enums"]))
                  /\ UNCHANGED HASHDB_REQUEST_LOCK
        /\ UNCHANGED <<HASHDB_ALGORITHM, HASHDB_ALGORITHM_SIZE, HASHDB_USE_XOR,
                       HASHDB_XOR_VALUE, nTrig, trig, net, main_join, sig, db, enum_call,
                   highlight, walk>>

lookup_add_enums_mutant_all(w) ==
    LET wr == worker[w] IN
    /\ wr.pipeline = "lookup"
    /\ wr.pc = "add_enums"
    /\ main_join = 0
    /\ \E found \in BOOLEAN :
         LET r == add_enums(db, generate_enum_name(ENUM_PREFIX),
                            [i \in 1..Len(wr.matches) |->
                                <<string_value(wr.matches[i]), wr.hash_value>>],
                            HASHDB_ALGORITHM_SIZE \div 8, found)
         IN  /\ db' = r.db
             /\ IF r.enum_id = NoEnum
                THEN release_and_return(w, wr)
                ELSE /\ Set(w, execute_sync([wr EXCEPT !.enum_id = r.enum_id,
                                                       !.pc = "make_const_enum"]))
                     /\ UNCHANGED HASHDB_REQUEST_LOCK
    /\ UNCHANGED <<HASHDB_ALGORITHM, HASHDB_ALGORITHM_SIZE, HASHDB_USE_XOR,
                   HASHDB_XOR_VALUE, nTrig, trig, net, main_join, sig, enum_call,
                   highlight, walk>>

\* execute_sync(add_enums_wrapper) on the main thread, with the enum name
\* generate_enum_name gave the callback just before; found tells whether
\* the host could create or find the enum
lookup_add_enums(w) ==
    LET wr == worker[w] IN
    /\ wr.pipeline = "lookup"
    /\ wr.pc = "add_enums"
    /\ main_join = 0
    /\ \E found \in BOOLEAN :
         LET r == add_enums(db, generate_enum_name(ENUM_PREFIX),
                            <<<<string_value(wr.chosen), wr.hash_value>>>>,
                            HASHDB_ALGORITHM_SIZE \div 8, found)
         IN  /\ db' = r.db
             /\ IF r.enum_id = NoEnum
                THEN release_and_return(w, wr)
                ELSE /\ Set(w, execute_sync([wr EXCEPT !.enum_id = r.enum_id,
                                                       !.pc = "make_const_enum"]))
                     /\ UNCHANGED HASHDB_REQUEST_LOCK
    /\ UNCHANGED <<HASHDB_ALGORITHM, HASHDB_ALGORITHM_SIZE, HASHDB_USE_XOR,
                   HASHDB_XOR_VALUE, nTrig, trig, net, main_join, sig, enum_call,
                   highlight, walk>>

\* execute_sync(make_const_enum_wrapper) on the main thread, then the
\* is_api test; disasm tells whether the current viewer is the disassembly
\* view, item is what the cursor is on
lookup_make_const_enum(w) ==
    LET wr == worker[w] IN
    /\ wr.pipeline = "lookup"
    /\ wr.pc = "make_const_enum"
    /\ main_join = 0
    /\ \E disasm \in BOOLEAN, item \in Items :
         db' = IF disasm
               THEN make_const_enum(db, wr.enum_id, wr.hash_value, item)
               ELSE db
    /\ IF ~wr.chosen.is_api
       THEN release_and_return(w, wr)
       ELSE /\ Set(w, execute_sync([wr EXCEPT !.pc = "api_import_select_show"]))
            /\ UNCHANGED HASHDB_REQUEST_LOCK
    /\ UNCHANGED <<HASHDB_ALGORITHM, HASHDB_ALGORITHM_SIZE, HASHDB_USE_XOR,
                   HASHDB_XOR_VALUE, nTrig, trig, net, main_join, sig, enum_call,
                   highlight, walk>>

\* execute_sync(api_import_select_show): the bulk import dialog on the main
\* thread
lookup_api_import_select_show(w) ==
    LET wr == worker[w] IN
    /\ wr.pipeline = "lookup"
    /\ wr.pc = "api_import_select_show"
    /\ main_join = 0
    /\ \E import \in BOOLEAN :
         IF ~import
         THEN release_and_return(w, cancel(wr, "api_import_select"))
         ELSE /\ Set(w, execute_sync(
                        [wr EXCEPT !.shown = Append(@, Dialog("api_import_select", <<>>)),
                                   !.pc = "get_module_hashes"]))
              /\ UNCHANGED HASHDB_REQUEST_LOCK
    /\ UNCHANGED <<HASHDB_ALGORITHM, HASHDB_ALGORITHM_SIZE, HASHDB_USE_XOR,
                   HASHDB_XOR_VALUE, nTrig, trig, net, main_join, sig, db, enum_call,
                   highlight, walk>>

\* get_module_hashes, called by the done callback on the Worker thread:
\* requests.Timeout returns, any other exception leaves hash_lookup_done
\* before its release
lookup_get_module_hashes(w) ==
    LET wr == worker[w] IN
    /\ wr.pipeline = "lookup"
    /\ wr.pc = "get_module_hashes"
    /\ \E http \in HttpOutcomes :
         CASE http = "Timeout" ->
                  release_and_return(w, wr)
           [] http = "ok" ->
                  /\ Set(w, [wr EXCEPT !.pc = "add_enums_import"])
                  /\ UNCHANGED HASHDB_REQUEST_LOCK
           [] OTHER ->
                  /\ Set(w, raise_in_try(wr, http))
                  /\ UNCHANGED HASHDB_REQUEST_LOCK
    /\ net' = NetCall("get_module_hashes", "worker")
    /\ UNCHANGED <<HASHDB_ALGORITHM, HASHDB_ALGORITHM_SIZE, HASHDB_USE_XOR,
                   HASHDB_XOR_VALUE, nTrig, trig, main_join, sig, db, enum_call,
                   highlight, walk>>

\* module_hash_list.get("hashes", []) of the module of an API match: the
\* API that was looked up, under the hash that was queried, and one more
module_hashes(wr) ==
    <<[api |-> wr.chosen.api, hash |-> wr.query], [api |-> "delta", hash |-> 9]>>

\* enum_list of hash_lookup_done_handler: the XOR settings are read when
\* the list is built
RECURSIVE enum_list(_)
enum_list(hashes) ==
    IF hashes = <<>> THEN <<>>
    ELSE <<<<Head(hashes).api,
             IF HASHDB_USE_XOR THEN xor(Head(hashes).hash, HASHDB_XOR_VALUE)
             ELSE Head(hashes).hash>>>> \o enum_list(Tail(hashes))

\* execute_sync(add_enums_wrapper) with the module's hashes, on the main
\* thread; the handler returns whether or not the enum was found
lookup_add_enums_import(w) ==
    LET wr == worker[w] IN
    /\ wr.pipeline = "lookup"
    /\ wr.pc = "add_enums_import"
    /\ main_join = 0
    /\ \E found \in BOOLEAN :
         db' = add_enums(db, generate_enum_name(ENUM_PREFIX),
                         enum_list(module_hashes(wr)),
                         HASHDB_ALGORITHM_SIZE \div 8, found).db
    /\ release_and_return(w, wr)
    /\ UNCHANGED <<HASHDB_ALGORITHM, HASHDB_ALGORITHM_SIZE, HASHDB_USE_XOR,
                   HASHDB_XOR_VALUE, nTrig, trig, net, main_join, sig, enum_call,
                   highlight, walk>>

\* hash_lookup_error / hash_scan_error / hunt_algorithm_error: log, release
pipeline_error(w) ==
    LET wr == worker[w] IN
    /\ wr.pipeline \in {"lookup", "scan", "hunt"}
    /\ wr.pc = "error_cb"
    /\ release_and_return(w, wr)
    /\ UNCHANGED <<HASHDB_ALGORITHM, HASHDB_ALGORITHM_SIZE, HASHDB_USE_XOR,
                   HASHDB_XOR_VALUE, nTrig, trig, net, main_join, sig, db, enum_call,
                   highlight, walk>>

----------------------------------------------------------------------------
\* Hash scan

\* hash_scan_run(convert_values, timeout); disasm tells whether the current
\* viewer is the disassembly view, n is the number of entries scan_range
\* finds in the selected range
hash_scan_run(disasm, form) ==
    IF ~disasm THEN RunResult("not_disasm", TRUE, NoDialog)
    ELSE LET s == IF HASHDB_ALGORITHM = None THEN settings_show(<<>>, form)
                  ELSE NoDialog
         IN  IF s.result = "ValueError" THEN RunResult("exception", FALSE, s)
             ELSE IF s.result = "False" THEN RunResult("config_cancelled", TRUE, s)
             ELSE IF s.size # 32 /\ s.size # 64 THEN RunResult("bad_size", TRUE, s)
             ELSE RunResult("started", FALSE, s)

\* scan_range on a range of n items of type int that starts at address 4:
\* one entry per value read, not yet queried; the values of a range differ
scan_entries(n) ==
    [i \in 1..n |-> [ea |-> 4 * i, hash_value |-> HashValue + i - 1,
                     size |-> 4, hashes |-> <<>>]]

\* What the query of one scanned value can answer: the scan treats API
\* symbols and plain strings alike
ScanResponses == {<<>>, <<StringMatch>>, <<StringMatch, ApiMatch>>}

\* The number of entries the selected range can have
Ranges == 1..(IF db.observed THEN MaxItems ELSE MaxScan)

\* hash_scan(convert_values): the menu action, on the main thread, with the
\* numbers of entries the selected range can have
hash_scan_of(ranges) ==
    IF rejected(HASHDB_REQUEST_LOCK) THEN reject
    ELSE \E form \in InputsIf(HASHDB_ALGORITHM = None), disasm \in BOOLEAN,
            convert_values \in BOOLEAN, n \in ranges :
             LET r == hash_scan_run(disasm, form)
             IN  accept(r, launched([Worker("scan", "coroutine") EXCEPT
                                         !.entries = scan_entries(n),
                                         !.convert_values = convert_values], r))

hash_scan == hash_scan_of(Ranges)

hash_scan_request_mutant_partial(w) ==
    LET wr == worker[w]
        i == wr.idx + 1
    IN  /\ wr.pipeline = "scan"
        /\ wr.pc = "target"
        /\ \E http \in HttpOutcomes, hashes \in ScanResponses :
             Set(w, CASE http = "Timeout" ->
                             invoke_done(ends([wr EXCEPT !.timed_out = TRUE,
                                                         !.idx = 0],
                                              "returned"))
                      [] http = "ok" ->
                             LET q == [wr EXCEPT !.entries[i].hashes = hashes,
                                                 !.idx = i]
                             IN  IF i = Len(wr.entries)
                                 THEN invoke_done(ends([q EXCEPT !.idx = 0], "returned"))
                                 ELSE q
                      [] OTHER -> raise_in_try(ends(wr, "raised"), http))
        /\ net' = NetCall("get_strings_from_hash", "worker")
        /\ UNCHANGED <<HASHDB_ALGORITHM, HASHDB_ALGORITHM_SIZE,
                       HASHDB_USE_XOR, HASHDB_XOR_VALUE, HASHDB_REQUEST_LOCK,
                       nTrig, trig, main_join, sig, db, enum_call,
                       highlight, walk>>

\* hash_scan_request: one pass of its loop, the remote query of the next
\* entry; after the last entry the coroutine returns the list
hash_scan_request(w) ==
    LET wr == worker[w]
        i == wr.idx + 1
    IN  /\ wr.pipeline = "scan"
        /\ wr.pc = "target"
        /\ \E http \in HttpOutcomes, hashes \in ScanResponses :
             Set(w, CASE http = "Timeout" -> request_timeout(wr)
                      [] http = "ok" ->
                             LET q == [wr EXCEPT !.entries[i].hashes = hashes,
                                                 !.idx = i]
                             IN  IF i = Len(wr.entries)
                                 THEN invoke_done(ends([q EXCEPT !.idx = 0], "returned"))
                                 ELSE q
                      [] OTHER -> raise_in_try(ends(wr, "raised"), http))
        /\ net' = NetCall("get_strings_from_hash", "worker")
        /\ UNCHANGED <<HASHDB_ALGORITHM, HASHDB_ALGORITHM_SIZE,
                       HASHDB_USE_XOR, HASHDB_XOR_VALUE, HASHDB_REQUEST_LOCK,
                       nTrig, trig, main_join, sig, db, enum_call,
                   highlight, walk>>

\* hash_scan_done on the Worker thread: the test of hash_list and the head
\* of one pass of its loop, up to the next execute_sync; entries holds what
\* the loop has still to visit
hash_scan_done(w) ==
    LET wr == worker[w] IN
    /\ wr.pipeline = "scan"
    /\ wr.pc = "done_cb"
    /\ IF wr.is_none
       THEN release_and_return(w, wr)
       ELSE IF wr.entries = <<>>
       THEN release_and_return(w, wr)
       ELSE LET hashes == Head(wr.entries).hashes IN
            /\ Set(w, CASE Len(hashes) = 0 ->
                               [wr EXCEPT !.entries = Tail(@)]
                        [] Len(hashes) = 1 ->
                               [wr EXCEPT !.chosen = hashes[1],
                                          !.pc = "scan_add_enums"]
                        [] OTHER ->
                               [wr EXCEPT !.pc = "scan_match_select_show"])
            /\ UNCHANGED HASHDB_REQUEST_LOCK
    /\ UNCHANGED <<HASHDB_ALGORITHM, HASHDB_ALGORITHM_SIZE, HASHDB_USE_XOR,
                   HASHDB_XOR_VALUE, nTrig, trig, net, main_join, sig, db, enum_call,
                   highlight, walk>>

scan_match_select_show_mutant_default(w) ==
    LET wr == worker[w]
        hashes == Head(wr.entries).hashes
        keys == collision_strings(hashes)
    IN  /\ wr.pipeline = "scan"
        /\ wr.pc = "scan_match_select_show"
        /\ main_join = 0
        /\ \E sel \in 0..Len(keys) :
             LET key == IF sel = 0 THEN keys[1] ELSE keys[sel]
             IN  Set(w, execute_sync(
                        [wr EXCEPT !.cancelled = IF sel = 0 THEN "match_select"
                                                 ELSE "none",
                                   !.chosen = collision(hashes, key),
                                   !.shown = Append(@, Dialog("match_select", keys)),
                                   !.pc = "scan_add_enums"]))
        /\ UNCHANGED <<HASHDB_ALGORITHM, HASHDB_ALGORITHM_SIZE, HASHDB_USE_XOR,
                       HASHDB_XOR_VALUE, HASHDB_REQUEST_LOCK, nTrig, trig, net,
                       main_join, sig, db, enum_call,
                       highlight, walk>>

\* execute_sync(match_select_show) of hash_scan_done, on the main thread
scan_match_select_show(w) ==
    LET wr == worker[w]
        hashes == Head(wr.entries).hashes
        keys == collision_strings(hashes)
    IN  /\ wr.pipeline = "scan"
        /\ wr.pc = "scan_match_select_show"
        /\ main_join = 0
        /\ \E sel \in 0..Len(keys) :
             IF sel = 0
             THEN release_and_return(w, cancel(wr, "match_select"))
             ELSE /\ Set(w, execute_sync(
                            [wr EXCEPT !.chosen = collision(hashes, keys[sel]),
                                       !.shown = Append(@, Dialog("match_select", keys)),
                                       !.pc = "scan_add_enums"]))
                  /\ UNCHANGED HASHDB_REQUEST_LOCK
        /\ UNCHANGED <<HASHDB_ALGORITHM, HASHDB_ALGORITHM_SIZE, HASHDB_USE_XOR,
                       HASHDB_XOR_VALUE, nTrig, trig, net, main_join, sig, db, enum_call,
                   highlight, walk>>

\* The end of one pass of the loop of hash_scan_done
next_entry(wr) ==
    [wr EXCEPT !.entries = Tail(@), !.chosen = NoChoice, !.shown = <<>>,
               !.enum_id = NoEnum, !.host = "none", !.pc = "done_cb"]

\* execute_sync(add_enums_wrapper) of hash_scan_done, on the main thread
scan_add_enums(w) ==
    LET wr == worker[w] IN
    /\ wr.pipeline = "scan"
    /\ wr.pc = "scan_add_enums"
    /\ main_join = 0
    /\ \E found \in BOOLEAN :
         LET r == add_enums(db, generate_enum_name(ENUM_PREFIX),
                            <<<<string_value(wr.chosen),
                                Head(wr.entries).hash_value>>>>,
                            HASHDB_ALGORITHM_SIZE \div 8, found)
         IN  /\ db' = r.db
             /\ IF r.enum_id = NoEnum
                THEN release_and_return(w, wr)
                ELSE /\ Set(w, IF wr.convert_values
                               THEN execute_sync(
                                        [wr EXCEPT !.enum_id = r.enum_id,
                                                   !.pc = "convert_to_integer"])
                               ELSE next_entry(execute_sync(wr)))
                     /\ UNCHANGED HASHDB_REQUEST_LOCK
    /\ UNCHANGED <<HASHDB_ALGORITHM, HASHDB_ALGORITHM_SIZE, HASHDB_USE_XOR,
                   HASHDB_XOR_VALUE, nTrig, trig, net, main_join, sig, enum_call,
                   highlight, walk>>

\* convert_data_to_integer(ea, size): the item at ea becomes an integer of
\* that size
convert_data_to_integer(d, ea, size) ==
    IF ~d.observed THEN d
    ELSE [d EXCEPT !.types = {t \in @ : t.ea # ea}
                             \cup {[ea |-> ea, size |-> size]}]

\* The closure set_name(ea, name) of hash_scan_done for name = "ptr_" +
\* base: the first of name, name_1, name_2, ... that no address has
RECURSIVE set_name(_, _, _, _)
set_name(d, ea, base, index) ==
    IF ~d.observed THEN d
    ELSE IF \E n \in d.names : n.name = <<"ptr", base, index>>
    THEN set_name(d, ea, base, index + 1)
    ELSE [d EXCEPT !.names = {n \in @ : n.ea # ea}
                             \cup {[ea |-> ea, name |-> <<"ptr", base, index>>]}]

\* The three execute_sync calls made when convert_values is set, each on
\* the main thread: convert_to_integer, convert_to_enum, set_name
scan_convert(w) ==
    LET wr == worker[w]
        entry == Head(wr.entries)
    IN  /\ wr.pipeline = "scan"
        /\ wr.pc \in {"convert_to_integer", "convert_to_enum", "set_name"}
        /\ main_join = 0
        /\ CASE wr.pc = "convert_to_integer" ->
                    /\ db' = convert_data_to_integer(db, entry.ea, entry.size)
                    /\ Set(w, execute_sync([wr EXCEPT !.pc = "convert_to_enum"]))
             [] wr.pc = "convert_to_enum" ->
                    /\ db' = IF ~db.observed THEN db
                             ELSE op_enum(db, entry.ea, 0, wr.enum_id)
                    /\ Set(w, execute_sync([wr EXCEPT !.pc = "set_name"]))
             [] OTHER ->
                    /\ db' = set_name(db, entry.ea, string_value(wr.chosen), 0)
                    /\ Set(w, next_entry(execute_sync(wr)))
        /\ UNCHANGED <<HASHDB_ALGORITHM, HASHDB_ALGORITHM_SIZE, HASHDB_USE_XOR,
                       HASHDB_XOR_VALUE, HASHDB_REQUEST_LOCK, nTrig, trig, net,
                       main_join, sig, enum_call,
                   highlight, walk>>

----------------------------------------------------------------------------
\* Algorithm hunt

\* r.json().get('hits', []) of POST /hunt, as the list of algorithm names
\* hunt_hash returns
HuntResponses == {<<>>, <<"crc32">>, <<"fnv1a_64", "crc32">>, <<"unlisted">>}

\* The join of hunt_algorithm_request: for each match, its catalog row
RECURSIVE hunt_results(_)
hunt_results(matches) ==
    IF matches = <<>> THEN <<>>
    ELSE LET rows == SelectSeq(Catalog, LAMBDA a : a.algorithm = Head(matches))
         IN  (IF rows = <<>> THEN <<>> ELSE <<Head(rows)>>)
             \o hunt_results(Tail(matches))

\* hunt_algorithm_run(timeout)
hunt_algorithm_run(parsed) ==
    IF ~parsed THEN RunResult("invalid_selection", TRUE, NoDialog)
    ELSE RunResult("started", FALSE, NoDialog)

\* hunt_algorithm(): the menu action, on the main thread
hunt_algorithm ==
    IF rejected(HASHDB_REQUEST_LOCK) THEN reject
    ELSE \E parsed \in BOOLEAN :
             accept(hunt_algorithm_run(parsed),
                    Worker("hunt", "coroutine"))

\* hunt_algorithm_request on the Worker thread: hunt_hash, then
\* get_algorithms, then the join; the list it returns is spread over the
\* parameters of hunt_algorithm_done, which takes at most one
hunt_algorithm_request(w) ==
    LET wr == worker[w] IN
    /\ wr.pipeline = "hunt"
    /\ wr.pc = "target"
    /\ \E hunt \in HttpOutcomes, catalog \in HttpOutcomes, matches \in HuntResponses :
         /\ Set(w, CASE hunt = "Timeout" -> request_timeout(wr)
                     [] hunt = "ok" /\ catalog = "Timeout" -> request_timeout(wr)
                     [] hunt = "ok" /\ catalog = "ok" ->
                            LET results == hunt_results(matches)
                            IN  call_done(ends([wr EXCEPT !.algos = results], "returned"),
                                          Len(results), 1)
                     [] hunt = "ok" -> raise_in_try(ends(wr, "raised"), catalog)
                     [] OTHER -> raise_in_try(ends(wr, "raised"), hunt))
         /\ net' = IF hunt = "ok" THEN NetCall("get_algorithms", "worker")
                    ELSE NetCall("hunt_hash", "worker")
    /\ UNCHANGED <<HASHDB_ALGORITHM, HASHDB_ALGORITHM_SIZE, HASHDB_USE_XOR,
                   HASHDB_XOR_VALUE, HASHDB_REQUEST_LOCK, nTrig, trig,
                   main_join, sig, db, enum_call,
                   highlight, walk>>

\* hunt_algorithm_done on the Worker thread, up to its execute_sync
hunt_algorithm_done(w) ==
    LET wr == worker[w] IN
    /\ wr.pipeline = "hunt"
    /\ wr.pc = "done_cb"
    /\ IF wr.is_none \/ Len(wr.algos) = 0
       THEN release_and_return(w, wr)
       ELSE /\ Set(w, [wr EXCEPT !.pc = "hunt_result_form_show"])
            /\ UNCHANGED HASHDB_REQUEST_LOCK
    /\ UNCHANGED <<HASHDB_ALGORITHM, HASHDB_ALGORITHM_SIZE, HASHDB_USE_XOR,
                   HASHDB_XOR_VALUE, nTrig, trig, net, main_join, sig, db, enum_call,
                   highlight, walk>>

\* execute_sync(hunt_result_form_t.show([response])) on the main thread: Ok
\* with the row selected sets the algorithm; then the callback releases
hunt_result_form_show(w) ==
    LET wr == worker[w] IN
    /\ wr.pipeline = "hunt"
    /\ wr.pc = "hunt_result_form_show"
    /\ main_join = 0
    /\ \E ok \in BOOLEAN, sel \in 0..1 :
         LET r == IF ok /\ sel = 1
                  THEN set_algorithm(wr.algos[1].algorithm, wr.algos[1].size)
                  ELSE [result |-> "False", alg |-> HASHDB_ALGORITHM,
                        size |-> HASHDB_ALGORITHM_SIZE]
         IN  /\ HASHDB_ALGORITHM' = r.alg
             /\ HASHDB_ALGORITHM_SIZE' = r.size
    /\ release_and_return(w, wr)
    /\ UNCHANGED <<HASHDB_USE_XOR, HASHDB_XOR_VALUE, nTrig, trig, net,
                   main_join, sig, db, enum_call,
                   highlight, walk>>

----------------------------------------------------------------------------
\* The Worker class on its own: a client constructs Workers around a
\* target, starts them with two callbacks and signals them.

\* Exceptions a target or a callback can raise
Exceptions == {"RuntimeError", "ValueError"}

NoSignal ==
    [w |-> 0, signal |-> "none", pc |-> "none", did |-> "none", returned |-> TRUE]

\* Worker(target=f): f is a plain function or a coroutine function; with a
\* coroutine target the callbacks may be coroutine functions too
construct ==
    /\ main_join = 0
    /\ nTrig < MaxWorkers
    /\ nTrig' = nTrig + 1
    /\ \E kind \in {"blocking", "coroutine"}, cb_async \in BOOLEAN :
         /\ cb_async => kind = "coroutine"
         /\ worker' = [worker EXCEPT ![nTrig + 1] =
                           [Worker("generic", kind) EXCEPT !.cb_async = cb_async]]
    /\ trig' = [NoTrigger EXCEPT !.n = nTrig + 1, !.outcome = "constructed"]
    /\ UNCHANGED <<HASHDB_ALGORITHM, HASHDB_ALGORITHM_SIZE, HASHDB_USE_XOR,
                   HASHDB_XOR_VALUE, HASHDB_REQUEST_LOCK, net, main_join,
                   sig, db, enum_call,
                   highlight, walk>>

\* worker.start(timeout, done_callback, error_callback) by the client
client_start(w) ==
    /\ main_join = 0
    /\ worker[w].pipeline = "generic"
    /\ worker[w].pc = "init"
    /\ \E timeout \in {0, HASHDB_REQUEST_TIMEOUT} :
         Set(w, start(worker[w], timeout))
    /\ UNCHANGED <<HASHDB_ALGORITHM, HASHDB_ALGORITHM_SIZE, HASHDB_USE_XOR,
                   HASHDB_XOR_VALUE, HASHDB_REQUEST_LOCK, nTrig, trig, net,
                   main_join, sig, db, enum_call,
                   highlight, walk>>

\* The target returns a value: the wrapper invokes the done callback
target_returns(w) ==
    /\ worker[w].pipeline = "generic"
    /\ worker[w].pc = "target"
    /\ ~worker[w].async_exc
    /\ Set(w, invoke_done(ends(worker[w], "returned")))
    /\ UNCHANGED <<HASHDB_ALGORITHM, HASHDB_ALGORITHM_SIZE, HASHDB_USE_XOR,
                   HASHDB_XOR_VALUE, HASHDB_REQUEST_LOCK, nTrig, trig, net,
                   main_join, sig, db, enum_call,
                   highlight, walk>>

\* The target raises
target_raises(w) ==
    /\ worker[w].pipeline = "generic"
    /\ worker[w].pc = "target"
    /\ ~worker[w].async_exc
    /\ \E e \in Exceptions : Set(w, raise_in_try(ends(worker[w], "raised"), e))
    /\ UNCHANGED <<HASHDB_ALGORITHM, HASHDB_ALGORITHM_SIZE, HASHDB_USE_XOR,
                   HASHDB_XOR_VALUE, HASHDB_REQUEST_LOCK, nTrig, trig, net,
                   main_join, sig, db, enum_call,
                   highlight, walk>>

\* asyncio.wait_for(target, timeout): the timer fires while the target is
\* suspended, and run_until_complete raises TimeoutError
wait_for_expires(w) ==
    /\ worker[w].pipeline = "generic"
    /\ worker[w].pc = "target"
    /\ worker[w].timeout
    /\ ~worker[w].async_exc
    /\ Set(w, raise_in_try(ends(worker[w], "timeout"), "TimeoutError"))
    /\ UNCHANGED <<HASHDB_ALGORITHM, HASHDB_ALGORITHM_SIZE, HASHDB_USE_XOR,
                   HASHDB_XOR_VALUE, HASHDB_REQUEST_LOCK, nTrig, trig, net,
                   main_join, sig, db, enum_call,
                   highlight, walk>>

\* The loop runs the loop.stop scheduled by __signal_to_coroutine:
\* run_until_complete raises RuntimeError, in the try block while the target
\* or the done callback runs, in the except clause while the error callback
\* runs
loop_stop(w) ==
    LET wr == worker[w] IN
    /\ wr.stop
    /\ loop_is_running(wr)
    /\ ~wr.async_exc
    /\ Set(w, CASE wr.pc = "target" ->
                       raise_in_try(ends([wr EXCEPT !.stop = FALSE], "stopped"),
                                    "RuntimeError")
                [] wr.pc = "done_cb" ->
                       raise_in_try([wr EXCEPT !.stop = FALSE], "RuntimeError")
                [] OTHER ->
                       raise_in_handler([wr EXCEPT !.stop = FALSE], "RuntimeError"))
    /\ UNCHANGED <<HASHDB_ALGORITHM, HASHDB_ALGORITHM_SIZE, HASHDB_USE_XOR,
                   HASHDB_XOR_VALUE, HASHDB_REQUEST_LOCK, nTrig, trig, net,
                   main_join, sig, db, enum_call,
                   highlight, walk>>

\* The done callback returns, or raises inside the try block
done_callback(w) ==
    LET wr == worker[w] IN
    /\ wr.pipeline = "generic"
    /\ wr.pc = "done_cb"
    /\ ~wr.async_exc
    /\ \/ Set(w, callback_returns(wr))
       \/ \E e \in Exceptions : Set(w, raise_in_try(wr, e))
    /\ UNCHANGED <<HASHDB_ALGORITHM, HASHDB_ALGORITHM_SIZE, HASHDB_USE_XOR,
                   HASHDB_XOR_VALUE, HASHDB_REQUEST_LOCK, nTrig, trig, net,
                   main_join, sig, db, enum_call,
                   highlight, walk>>

\* The error callback returns, or raises inside the except clause
error_callback(w) ==
    LET wr == worker[w] IN
    /\ wr.pipeline = "generic"
    /\ wr.pc = "error_cb"
    /\ ~wr.async_exc
    /\ \/ Set(w, callback_returns(wr))
       \/ \E e \in Exceptions : Set(w, raise_in_handler(wr, e))
    /\ UNCHANGED <<HASHDB_ALGORITHM, HASHDB_ALGORITHM_SIZE, HASHDB_USE_XOR,
                   HASHDB_XOR_VALUE, HASHDB_REQUEST_LOCK, nTrig, trig, net,
                   main_join, sig, db, enum_call,
                   highlight, walk>>

\* The SystemExit set by PyThreadState_SetAsyncExc is raised in the thread,
\* wherever it is: before the wrapper's try block and in its finally clause
\* it ends the thread, in the try block it is an exception of the target or
\* of the done callback, in the except clause one of the error callback
async_exc_raised(w) ==
    LET wr == [worker[w] EXCEPT !.async_exc = FALSE] IN
    /\ worker[w].async_exc
    /\ worker[w].pc \in {"started", "loop_set", "target", "done_cb", "error_cb",
                         "finally"}
    /\ Set(w, CASE wr.pc = "target" -> raise_in_try(ends(wr, "injected"), "SystemExit")
                [] wr.pc = "done_cb" -> raise_in_try(wr, "SystemExit")
                [] wr.pc = "error_cb" -> raise_in_handler(wr, "SystemExit")
                [] OTHER -> leave(wr))
    /\ UNCHANGED <<HASHDB_ALGORITHM, HASHDB_ALGORITHM_SIZE, HASHDB_USE_XOR,
                   HASHDB_XOR_VALUE, HASHDB_REQUEST_LOCK, nTrig, trig, net,
                   main_join, sig, db, enum_call,
                   highlight, walk>>

\* Worker.signal(signal) and __signal_to_coroutine, as far as the call goes
\* before it returns or joins: did names the branch taken, wr is the Worker
\* afterwards, join tells whether the caller goes on to self.join().
\* modified is what PyThreadState_SetAsyncExc returns for the thread id
\* passed (native_id where the platform has one, else ident): 1 when it
\* names the thread, 0 when it names none, more when it names several
\* thread states, whose pending exception is then cleared again.
signal(wr, s, modified) ==
    CASE ~is_alive(wr) ->
             [did |-> "not_alive", wr |-> wr, join |-> FALSE]
      [] is_alive(wr) /\ has_loop(wr) ->
             IF ~loop_is_running(wr)
             THEN [did |-> "loop_not_running", wr |-> wr, join |-> FALSE]
             ELSE IF s = "NONE"
             THEN [did |-> "none", wr |-> wr, join |-> FALSE]
             ELSE [did |-> "loop_stop", wr |-> [wr EXCEPT !.stop = TRUE],
                   join |-> TRUE]
      [] OTHER ->
             IF s = "NONE"
             THEN [did |-> "none", wr |-> wr, join |-> FALSE]
             ELSE IF wr.pc = "init"
             THEN [did |-> "TypeError", wr |-> wr, join |-> FALSE]
             ELSE IF modified = 0 \/ wr.pc = "dead"
             THEN [did |-> "invalid_thread_id", wr |-> wr, join |-> FALSE]
             ELSE IF modified # 1
             THEN [did |-> "cleared", wr |-> wr, join |-> FALSE]
             ELSE [did |-> "async_exc", wr |-> [wr EXCEPT !.async_exc = TRUE],
                   join |-> TRUE]

\* await worker.signal(s) by the client, on any Worker it has constructed.
\* Between the call that sets the exception in several thread states and
\* the call that clears it the Worker thread may run (logging.warn), so the
\* exception either is still pending at the clearing call or has been
\* taken by the thread.
client_signal(w) ==
    /\ main_join = 0
    /\ worker[w].pc # "none"
    /\ \E s \in {"NONE", "STOP"}, modified \in 0..2, taken \in BOOLEAN :
         LET r == signal(worker[w], s, modified) IN
         /\ taken => r.did = "cleared"
         /\ Set(w, IF taken THEN [r.wr EXCEPT !.async_exc = TRUE] ELSE r.wr)
         /\ main_join' = IF r.join THEN w ELSE 0
         /\ sig' = [w |-> w, signal |-> s, pc |-> worker[w].pc, did |-> r.did,
                    returned |-> ~r.join]
    /\ UNCHANGED <<HASHDB_ALGORITHM, HASHDB_ALGORITHM_SIZE, HASHDB_USE_XOR,
                   HASHDB_XOR_VALUE, HASHDB_REQUEST_LOCK, nTrig, trig, net,
                   db, enum_call,
                   highlight, walk>>

\* self.join() returns once the thread has ended, and signal returns
join(w) ==
    /\ main_join = w
    /\ worker[w].pc = "dead"
    /\ main_join' = 0
    /\ sig' = [sig EXCEPT !.returned = TRUE]
    /\ UNCHANGED <<HASHDB_ALGORITHM, HASHDB_ALGORITHM_SIZE, HASHDB_USE_XOR,
                   HASHDB_XOR_VALUE, HASHDB_REQUEST_LOCK, nTrig, trig,
                   worker, net, db, enum_call,
                   highlight, walk>>

----------------------------------------------------------------------------
\* Specifications

\* After the module is loaded and load_settings has run: no request in
\* flight, the algorithm either unset or restored from the database
Init ==
    /\ \E a \in {<<None, 0>>, <<"crc32", 32>>} :
         /\ HASHDB_ALGORITHM = a[1]
         /\ HASHDB_ALGORITHM_SIZE = a[2]
    /\ HASHDB_REQUEST_LOCK = [locked |-> FALSE, owner |-> 0, error |-> FALSE]
    /\ nTrig = 0
    /\ trig = NoTrigger
    /\ worker = [n \in Ids |-> NoWorker]
    /\ net = NoCall
    /\ main_join = 0
    /\ sig = NoSignal
    /\ HASHDB_USE_XOR = FALSE
    /\ HASHDB_XOR_VALUE = 0
    /\ db = Opaque
    /\ enum_call = NoEnumCall
    /\ highlight = NoHighlight
    /\ walk = NoWalk

\* The steps of a Worker thread inside Worker.run and the wrappers
WorkerThread(w) ==
    \/ run(w)
    \/ run_until_complete(w)
    \/ finally(w)
    \/ thread_exit(w)

Next ==
    \/ global_settings
    \/ hash_lookup
    \/ hash_scan
    \/ hunt_algorithm
    \/ \E w \in Ids :
         \/ WorkerThread(w)
         \/ hash_lookup_request(w)
         \/ hash_lookup_done(w)
         \/ lookup_match_select_show(w)
         \/ lookup_add_enums(w)
         \/ lookup_make_const_enum(w)
         \/ lookup_api_import_select_show(w)
         \/ lookup_get_module_hashes(w)
         \/ lookup_add_enums_import(w)
         \/ hash_scan_request(w)
         \/ hash_scan_done(w)
         \/ scan_match_select_show(w)
         \/ scan_add_enums(w)
         \/ scan_convert(w)
         \/ hunt_algorithm_request(w)
         \/ hunt_algorithm_done(w)
         \/ hunt_result_form_show(w)
         \/ pipeline_error(w)

Spec == Init /\ [][Next]_vars

\* The Worker class under a client that constructs, starts and signals
InitWorker ==
    /\ HASHDB_ALGORITHM = None
    /\ HASHDB_ALGORITHM_SIZE = 0
    /\ HASHDB_REQUEST_LOCK = [locked |-> FALSE, owner |-> 0, error |-> FALSE]
    /\ nTrig = 0
    /\ trig = NoTrigger
    /\ worker = [n \in Ids |-> NoWorker]
    /\ net = NoCall
    /\ main_join = 0
    /\ sig = NoSignal
    /\ HASHDB_USE_XOR = FALSE
    /\ HASHDB_XOR_VALUE = 0
    /\ db = Opaque
    /\ enum_call = NoEnumCall
    /\ highlight = NoHighlight
    /\ walk = NoWalk

NextWorker ==
    \/ construct
    \/ \E w \in Ids :
         \/ client_start(w)
         \/ client_signal(w)
         \/ join(w)
         \/ WorkerThread(w)
         \/ target_returns(w)
         \/ target_raises(w)
         \/ wait_for_expires(w)
         \/ loop_stop(w)
         \/ done_callback(w)
         \/ error_callback(w)
         \/ async_exc_raised(w)

SpecWorker == InitWorker /\ [][NextWorker]_vars

\* The data of one Lookup or Range Scan: the last trigger of a session, on
\* a database that is observed

\* The enum of the active algorithm of InitData
Crc32Enum == <<ENUM_PREFIX, "crc32">>

\* What the enums can hold before the trigger: nothing, the looked-up
\* value under either candidate name, or a candidate name on another value
Databases ==
    {[EmptyDb EXCEPT !.enums = IF ms = {} THEN {}
                               ELSE {[name |-> Crc32Enum, width |-> 4]},
                     !.members = ms] :
        ms \in {{}, {Member(Crc32Enum, <<"alpha", 0>>, HashValue)},
                {Member(Crc32Enum, <<"beta", 0>>, HashValue)},
                {Member(Crc32Enum, <<"beta", 0>>, HashValue + 2)}}}

InitData ==
    /\ HASHDB_ALGORITHM = "crc32"
    /\ HASHDB_ALGORITHM_SIZE = 32
    /\ \E x \in {XorSetting(FALSE, 0), XorSetting(TRUE, XorMask)} :
         /\ HASHDB_USE_XOR = x.use
         /\ HASHDB_XOR_VALUE = x.value
    /\ HASHDB_REQUEST_LOCK = [locked |-> FALSE, owner |-> 0, error |-> FALSE]
    /\ nTrig = MaxTriggers - 1
    /\ trig = NoTrigger
    /\ worker = [n \in Ids |-> NoWorker]
    /\ net = NoCall
    /\ main_join = 0
    /\ sig = NoSignal
    /\ db \in Databases
    /\ enum_call = NoEnumCall
    /\ highlight = NoHighlight
    /\ walk = NoWalk

NextData ==
    \/ global_settings
    \/ hash_lookup
    \/ hash_scan
    \/ \E w \in Ids :
         \/ WorkerThread(w)
         \/ hash_lookup_request(w)
         \/ hash_lookup_done(w)
         \/ lookup_match_select_show(w)
         \/ lookup_add_enums(w)
         \/ lookup_make_const_enum(w)
         \/ lookup_api_import_select_show(w)
         \/ lookup_get_module_hashes(w)
         \/ lookup_add_enums_import(w)
         \/ hash_scan_request(w)
         \/ hash_scan_done(w)
         \/ scan_match_select_show(w)
         \/ scan_add_enums(w)
         \/ scan_convert(w)
         \/ pipeline_error(w)

SpecData == InitData /\ [][NextData]_vars

----------------------------------------------------------------------------
\* SpecScan: one hash_scan of a range of ScanLength values on an empty
\* database, with the data observed

InitScan ==
    /\ HASHDB_ALGORITHM = "crc32"
    /\ HASHDB_ALGORITHM_SIZE = 32
    /\ HASHDB_USE_XOR = FALSE
    /\ HASHDB_XOR_VALUE = 0
    /\ HASHDB_REQUEST_LOCK = [locked |-> FALSE, owner |-> 0, error |-> FALSE]
    /\ nTrig = MaxTriggers - 1
    /\ trig = NoTrigger
    /\ worker = [n \in Ids |-> NoWorker]
    /\ net = NoCall
    /\ main_join = 0
    /\ sig = NoSignal
    /\ db = EmptyDb
    /\ enum_call = NoEnumCall
    /\ highlight = NoHighlight
    /\ walk = NoWalk

\* hash_scan on a range of ScanLength values
hash_scan_long == hash_scan_of({ScanLength})

NextScan ==
    \/ hash_scan_long
    \/ \E w \in Ids :
         \/ WorkerThread(w)
         \/ hash_scan_request(w)
         \/ hash_scan_done(w)
         \/ scan_match_select_show(w)
         \/ scan_add_enums(w)
         \/ scan_convert(w)
         \/ pipeline_error(w)

SpecScan == InitScan /\ [][NextScan]_vars

----------------------------------------------------------------------------
\* SpecEnum: add_enums as a function of the database, applied to pairs
\* drawn from EnumNames and EnumValues, call after call, on the enum of the
\* active algorithm

EnumNames == {"foo", "bar"}

EnumValues == {1, 2}

\* hash_list: up to MaxPairs (name, value) pairs
HashLists ==
    UNION {[1..n -> EnumNames \X EnumValues] : n \in 1..MaxPairs}

\* An enum of the user's, whose members take names
UserEnum == <<"user", "enum">>

\* Members of the user's enum under the given indices of the name foo
Taken(indices) == {Member(UserEnum, <<"foo", i>>, 100 + i) : i \in indices}

\* What the database can hold before the first call: nothing; the names
\* foo, foo_1 and foo_3; every name add_enums can try for foo; two members
\* of the user's with one value in the enum of the algorithm
EnumDatabases ==
    {[EmptyDb EXCEPT !.enums = {[name |-> m.enum, width |-> 4] : m \in ms},
                     !.members = ms] :
        ms \in {{}, Taken({0, 1, 3}), Taken(0..(MAXIMUM_ATTEMPTS - 1)),
                {Member(Crc32Enum, <<"u", 0>>, 1),
                 Member(Crc32Enum, <<"v", 0>>, 1)}}}

InitEnum ==
    /\ HASHDB_ALGORITHM = "crc32"
    /\ HASHDB_ALGORITHM_SIZE = 32
    /\ HASHDB_USE_XOR = FALSE
    /\ HASHDB_XOR_VALUE = 0
    /\ HASHDB_REQUEST_LOCK = [locked |-> FALSE, owner |-> 0, error |-> FALSE]
    /\ nTrig = 0
    /\ trig = NoTrigger
    /\ worker = [n \in Ids |-> NoWorker]
    /\ net = NoCall
    /\ main_join = 0
    /\ sig = NoSignal
    /\ db \in EnumDatabases
    /\ enum_call = NoEnumCall
    /\ highlight = NoHighlight
    /\ walk = NoWalk

\* add_enums(generate_enum_name(ENUM_PREFIX), hash_list), as its callers
\* call it: the width comes from HASHDB_ALGORITHM_SIZE
call_add_enums ==
    /\ \E hash_list \in HashLists, found \in BOOLEAN :
         LET enum_name == generate_enum_name(ENUM_PREFIX)
             r == add_enums(db, enum_name, hash_list,
                            HASHDB_ALGORITHM_SIZE \div 8, found)
         IN  /\ db' = r.db
             /\ enum_call' =
                    [enum_name |-> enum_name, hash_list |-> hash_list,
                     enum_id |-> r.enum_id, attempts |-> r.attempts,
                     added |-> enum_call.added
                                   \cup (r.db.members \ db.members)]
    /\ UNCHANGED <<HASHDB_ALGORITHM, HASHDB_ALGORITHM_SIZE, HASHDB_USE_XOR,
                   HASHDB_XOR_VALUE, HASHDB_REQUEST_LOCK, nTrig, trig, worker,
                   net, main_join, sig,
                   highlight, walk>>

NextEnum == call_add_enums

SpecEnum == InitEnum /\ [][NextEnum]_vars

----------------------------------------------------------------------------
\* SpecParse: parse_highlighted_value as a function of the highlight,
\* applied to every text of up to MaxText characters of Alphabet and to
\* the Samples

Alphabet == {"0", "1", "7", "9", "A", "f", "h", "o", "b", "x", "q"}

Sample_41414141h == <<"4", "1", "4", "1", "4", "1", "4", "1", "h">>
Sample_0x1A == <<"0", "x", "1", "A">>
Sample_123q == <<"1", "2", "3", "q">>

Samples == {Sample_41414141h, Sample_0x1A, Sample_123q}

Texts == UNION {[1..n -> Alphabet] : n \in 0..MaxText} \cup Samples

Things ==
    {NoThing} \cup [some : {TRUE}, text : Texts, flags : {0, 1}]

InitParse ==
    /\ HASHDB_ALGORITHM = None
    /\ HASHDB_ALGORITHM_SIZE = 0
    /\ HASHDB_USE_XOR = FALSE
    /\ HASHDB_XOR_VALUE = 0
    /\ HASHDB_REQUEST_LOCK = [locked |-> FALSE, owner |-> 0, error |-> FALSE]
    /\ nTrig = 0
    /\ trig = NoTrigger
    /\ worker = [n \in Ids |-> NoWorker]
    /\ net = NoCall
    /\ main_join = 0
    /\ sig = NoSignal
    /\ db = Opaque
    /\ enum_call = NoEnumCall
    /\ \E thing \in Things : highlight = [NoHighlight EXCEPT !.thing = thing]
    /\ walk = NoWalk

\* parse_highlighted_value()
call_parse_highlighted_value ==
    /\ ~highlight.returned
    /\ highlight' = [highlight EXCEPT
                         !.value = parse_highlighted_value(highlight.thing),
                         !.returned = TRUE]
    /\ UNCHANGED <<HASHDB_ALGORITHM, HASHDB_ALGORITHM_SIZE, HASHDB_USE_XOR,
                   HASHDB_XOR_VALUE, HASHDB_REQUEST_LOCK, nTrig, trig, worker,
                   net, main_join, sig, db, enum_call, walk>>

NextParse == call_parse_highlighted_value

SpecParse == InitParse /\ [][NextParse]_vars

----------------------------------------------------------------------------
\* scan_range on its own: one call on every range of up to MaxRange
\* addresses that starts at 0 or 1, for every guessed type at each address,
\* either algorithm width and either value of convert_values.  The call
\* is made once its arguments are there.

\* The selected ranges <<start, end>>
Selections ==
    {r \in (0..1) \X (1..(MaxRange + 1)) :
        r[1] < r[2] /\ r[2] - r[1] <= MaxRange}

Walks ==
    UNION {[guessed : [r[1]..(r[2] - 1) -> GuessedTypes], start : {r[1]},
            end : {r[2]}, convert_values : BOOLEAN, returned : {FALSE},
            hash_values : {<<>>}, guessed_after : {<<>>}] : r \in Selections}

InitRange ==
    /\ \E a \in {<<"crc32", 32>>, <<"fnv1a_64", 64>>} :
         /\ HASHDB_ALGORITHM = a[1]
         /\ HASHDB_ALGORITHM_SIZE = a[2]
    /\ HASHDB_USE_XOR = FALSE
    /\ HASHDB_XOR_VALUE = 0
    /\ HASHDB_REQUEST_LOCK = [locked |-> FALSE, owner |-> 0, error |-> FALSE]
    /\ nTrig = 0
    /\ trig = NoTrigger
    /\ worker = [n \in Ids |-> NoWorker]
    /\ net = NoCall
    /\ main_join = 0
    /\ sig = NoSignal
    /\ db = Opaque
    /\ enum_call = NoEnumCall
    /\ highlight = NoHighlight
    /\ walk \in Walks

\* hash_list = scan_range(start, end)
call_scan_range ==
    /\ ~walk.returned
    /\ walk' = [walk EXCEPT
                    !.hash_values = scan_range(walk.guessed, walk.start, walk.end,
                                               walk.convert_values,
                                               HASHDB_ALGORITHM_SIZE),
                    !.guessed_after = walk.guessed,
                    !.returned = TRUE]
    /\ UNCHANGED <<HASHDB_ALGORITHM, HASHDB_ALGORITHM_SIZE, HASHDB_USE_XOR,
                   HASHDB_XOR_VALUE, HASHDB_REQUEST_LOCK, nTrig, trig, worker,
                   net, main_join, sig, db, enum_call, highlight>>

NextRange == call_scan_range

SpecRange == InitRange /\ [][NextRange]_vars

----------------------------------------------------------------------------
\* Properties

Pipelines == {"lookup", "scan", "hunt"}

\* The pre-flight returns of the *_run functions that start no Worker
EarlyReturns == {"config_cancelled", "invalid_selection", "not_disasm", "bad_size"}

\* A step that is a trigger of hash_lookup, hash_scan or hunt_algorithm
Triggered == nTrig' = nTrig + 1

\* C1 (Spec): a trigger that finds HASHDB_REQUEST_LOCK held is rejected: it
\* starts no Worker, changes no Worker (so no callback is invoked on its
\* behalf) and leaves the lock as it was, held by its owner.
C1_SingleFlightRejection ==
    [][(Triggered /\ locked(HASHDB_REQUEST_LOCK)) =>
           /\ trig'.outcome = "rejected"
           /\ worker' = worker
           /\ HASHDB_REQUEST_LOCK' = HASHDB_REQUEST_LOCK]_vars

C1_Witness ==
    /\ trig.outcome = "rejected"
    /\ worker[trig.n] = NoWorker
    /\ locked(HASHDB_REQUEST_LOCK)
    /\ HASHDB_REQUEST_LOCK.owner < trig.n
    /\ is_alive(worker[HASHDB_REQUEST_LOCK.owner])

\* C2 (Spec): every accepted trigger is eventually followed by a release of
\* the lock, on every exit path of the pipeline; so once the Worker thread
\* of a trigger has ended, the lock is no longer held by that trigger.
C2_GateReleasedWhenPipelineEnded ==
    \A w \in Ids :
        worker[w].pc = "dead" => HASHDB_REQUEST_LOCK.owner # w

\* C3 (Spec): a pipeline callback that has returned has released the lock
\* exactly once and the lock is no longer held by its trigger, release is
\* never executed on an unheld lock, and a trigger that finds the lock free
\* is accepted.
C3_ReleasedOnce ==
    /\ ~HASHDB_REQUEST_LOCK.error
    /\ \A w \in Ids :
           (worker[w].pipeline \in Pipelines /\ worker[w].pc = "finally"
              /\ worker[w].raised = "none") =>
               /\ worker[w].releases = 1
               /\ HASHDB_REQUEST_LOCK.owner # w

C3_GateBalanceOnCompletion ==
    /\ []C3_ReleasedOnce
    /\ [][(Triggered /\ ~locked(HASHDB_REQUEST_LOCK)) =>
              trig'.outcome # "rejected"]_vars

C3_Witness ==
    /\ worker[1].pipeline \in Pipelines
    /\ worker[1].pc = "finally"
    /\ worker[1].error_calls = 1
    /\ worker[1].releases = 1
    /\ trig.n = 2
    /\ trig.outcome = "started"
    /\ HASHDB_REQUEST_LOCK.owner = 2

\* C4 (Spec): a trigger whose *_run function returned early started no
\* Worker and released the lock once itself; a trigger that started a Worker
\* did not release the lock.
C4_PreflightRelease ==
    /\ trig.outcome \in EarlyReturns =>
           /\ trig.released = 1
           /\ worker[trig.n] = NoWorker
           /\ HASHDB_REQUEST_LOCK.owner # trig.n
           /\ ~HASHDB_REQUEST_LOCK.error
    /\ trig.outcome = "started" =>
           /\ trig.released = 0
           /\ worker[trig.n] # NoWorker

C4_Witness ==
    /\ trig.n = 2
    /\ trig.outcome = "invalid_selection"
    /\ trig.released = 1
    /\ worker[2] = NoWorker
    /\ ~locked(HASHDB_REQUEST_LOCK)

\* C5 (Spec): when the wrapper reaches its finally clause, work that ended
\* by completion, cancellation or timeout has had exactly one of the two
\* callbacks invoked, and work that ended with an unclassified exception has
\* had neither and the exception is being re-raised.
C5_ExactlyOneCallback ==
    \A w \in Ids :
        worker[w].pc = "finally" =>
            IF worker[w].work = "raised" /\ worker[w].raised # "none"
            THEN worker[w].done_calls = 0 /\ worker[w].error_calls = 0
            ELSE /\ worker[w].done_calls + worker[w].error_calls = 1
                 /\ worker[w].raised = "none"

\* C6 (Spec): at most one Worker thread is alive at any instant.
C6_AtMostOneWorkerAlive ==
    Cardinality({w \in Ids : is_alive(worker[w])}) <= 1

\* C7 (SpecWorker): Worker.signal on a Worker that was never started or
\* whose thread has finished changes nothing, does not join and does not
\* raise: the call takes the not-alive return.
C7_SignalNotAliveIsNoOp ==
    [][\A w \in Ids :
           (main_join = 0 /\ sig' # sig /\ sig'.w = w
              /\ worker[w].pc \in {"init", "dead"}) =>
               /\ sig'.did = "not_alive"
               /\ sig'.returned
               /\ worker' = worker
               /\ main_join' = main_join]_vars

C7_Witness ==
    /\ sig.signal = "STOP"
    /\ sig.pc = "dead"
    /\ sig.did = "not_alive"
    /\ sig.returned
    /\ worker[sig.w].pc = "dead"

C9_StopAbandonsWork ==
    (sig.signal = "STOP" /\ sig.pc \in {"started", "loop_set", "target"}
       /\ worker[sig.w].kind = "coroutine") =>
        /\ worker[sig.w].done_calls = 0
        /\ worker[sig.w].pc = "finally" => worker[sig.w].error_calls = 1
        /\ sig.returned => worker[sig.w].pc = "dead"

\* C10 (Spec): no remote call is made by the main thread.
C10_NoNetworkOnMainThread == net.thread # "main"

\* The positions of a Worker thread inside a done or error callback
CallbackPcs ==
    {"done_cb", "error_cb", "match_select_show", "add_enums", "make_const_enum",
     "api_import_select_show", "get_module_hashes", "add_enums_import",
     "scan_match_select_show", "scan_add_enums", "convert_to_integer",
     "convert_to_enum", "set_name", "hunt_result_form_show"}

\* The positions a callback reaches only by coming back from an
\* execute_sync closure that showed a dialog or wrote to the database
AfterClosure ==
    {"make_const_enum", "api_import_select_show", "get_module_hashes",
     "add_enums_import", "convert_to_integer", "convert_to_enum", "set_name"}

C12_ConfigurationSnapshot ==
    \A w \in Ids :
        worker[w].enum_id # NoEnum =>
            worker[w].enum_id = <<ENUM_PREFIX, worker[w].algorithm>>

\* A step that is an accepted trigger of hash_lookup or hash_scan made while
\* no algorithm is set
UnconfiguredTrigger ==
    /\ Triggered
    /\ trig'.fn \in {"lookup", "scan"}
    /\ HASHDB_ALGORITHM = None

\* C13 as stated (Spec): every accepted trigger of hash_lookup or hash_scan
\* made while no algorithm is set shows the settings dialog once; when the
\* dialog is cancelled no Worker is started; a Worker is started only with
\* an algorithm set.
C13_SettingsDialogFirst ==
    [][UnconfiguredTrigger =>
          /\ trig'.dialogs = 1
          /\ trig'.outcome = "config_cancelled" => worker' = worker
          /\ trig'.outcome = "started" => HASHDB_ALGORITHM' # None]_vars

\* C13 (Spec): every accepted trigger of hash_lookup, and every accepted
\* trigger of hash_scan that finds the disassembly view, made while no
\* algorithm is set shows the settings dialog once (hash_scan outside the
\* disassembly view returns before the dialog); a trigger made with an
\* algorithm set shows none; when the dialog is cancelled no Worker is
\* started; the Worker of a Lookup or Scan is started, and runs, only with
\* an algorithm set.
C13_SettingsDialogWhenUnconfigured ==
    /\ [](\A w \in Ids :
             (worker[w].pipeline \in {"lookup", "scan"} /\ is_alive(worker[w]))
                 => HASHDB_ALGORITHM # None)
    /\ [][(Triggered /\ trig'.fn \in {"lookup", "scan"}) =>
             /\ trig'.dialogs = IF HASHDB_ALGORITHM = None
                                   /\ trig'.outcome # "not_disasm"
                                THEN 1 ELSE 0
             /\ trig'.outcome = "config_cancelled" =>
                    (HASHDB_ALGORITHM = None /\ worker' = worker)
             /\ trig'.outcome = "started" =>
                    /\ HASHDB_ALGORITHM' # None
                    /\ worker'[trig'.n].pipeline = trig'.fn
                    /\ is_alive(worker'[trig'.n])]_vars

\* A Scan triggered with no algorithm set, configured in the dialog, and
\* started
C13_Witness ==
    /\ trig.fn = "scan"
    /\ trig.dialogs = 1
    /\ trig.outcome = "started"
    /\ HASHDB_ALGORITHM # None
    /\ worker[trig.n].pc = "started"

\* The positions of a callback at which the match of the current value has
\* been settled: the write of the value is next or has been made
MatchSettled ==
    {"add_enums", "make_const_enum", "api_import_select_show",
     "get_module_hashes", "add_enums_import", "scan_add_enums",
     "convert_to_integer", "convert_to_enum", "set_name"}

\* The matches of the value a callback is working on
current_hashes(wr) ==
    IF wr.pipeline = "scan" THEN Head(wr.entries).hashes ELSE wr.matches

\* The disambiguation dialogs shown for the current value
match_dialogs(wr) == SelectSeq(wr.shown, LAMBDA d : d.form = "match_select")

\* C14 (SpecData): when the value of a Lookup, or of an entry of a Range
\* Scan, has exactly one match, no disambiguation dialog is shown and that
\* match is used; when it has more than one, the dialog has been shown once,
\* with the display strings of the matches, and answered with one of them
\* before anything is written for that value; and the database changes only
\* in a step of a callback whose match is settled.
C14_MatchSettledBeforeWrite ==
    /\ [](\A w \in Ids :
             LET wr == worker[w] IN
             wr.pc \in MatchSettled =>
                 IF Len(current_hashes(wr)) = 1
                 THEN /\ match_dialogs(wr) = <<>>
                      /\ wr.chosen = current_hashes(wr)[1]
                 ELSE /\ match_dialogs(wr) =
                             <<Dialog("match_select",
                                      collision_strings(current_hashes(wr)))>>
                      /\ \E i \in 1..Len(current_hashes(wr)) :
                             wr.chosen = current_hashes(wr)[i])
    /\ [][db' # db => \E w \in Ids : worker[w].pc \in MatchSettled]_vars

\* The second entry of a Range Scan settled by the dialog, and written
C14_Witness ==
    \E w \in Ids :
        /\ worker[w].pipeline = "scan"
        /\ worker[w].pc = "convert_to_integer"
        /\ Head(worker[w].entries).ea = 8
        /\ Len(Head(worker[w].entries).hashes) = 2
        /\ worker[w].chosen = ApiMatch
        /\ db # worker[w].db0

\* The done callback of a Lookup whose query was answered with no match
\* is about to run
EmptyLookup(w) ==
    /\ worker[w].pipeline = "lookup"
    /\ worker[w].pc = "done_cb"
    /\ worker[w].is_none
    /\ ~worker[w].timed_out

\* C15 (SpecData): a Lookup whose query is answered with zero matches has
\* changed nothing in the database when its done callback is invoked, and
\* the callback's only step shows no dialog, leaves the database (enums,
\* members, operand tags, names) as it is, releases the request lock and
\* returns.
C15_EmptyLookupChangesNothing ==
    /\ [](\A w \in Ids : EmptyLookup(w) =>
             /\ db = worker[w].db0
             /\ worker[w].shown = <<>>
             /\ locked(HASHDB_REQUEST_LOCK))
    /\ [][\A w \in Ids :
             (EmptyLookup(w) /\ worker'[w] # worker[w]) =>
                 /\ db' = db
                 /\ worker'[w].pc = "finally"
                 /\ worker'[w].releases = 1
                 /\ ~locked(HASHDB_REQUEST_LOCK')]_vars

\* The query of a Lookup on a database that holds a member was answered
\* with no match, and the done callback has been invoked
C15_Witness ==
    \E w \in Ids :
        /\ EmptyLookup(w)
        /\ worker[w].done_calls = 1
        /\ net = NetCall("get_strings_from_hash", "worker")
        /\ db.members # {}

\* The collision dialog of a Lookup is about to be shown
LookupDialogPending(w) ==
    /\ worker[w].pipeline = "lookup"
    /\ worker[w].pc = "match_select_show"

\* The user has cancelled the collision dialog of a Lookup
LookupDialogCancelled(w) ==
    /\ worker[w].pipeline = "lookup"
    /\ worker[w].cancelled = "match_select"

\* C16 (SpecData): when the collision dialog of a Lookup comes up, the
\* database is still as it was when the Lookup was triggered; once the user
\* has cancelled the dialog the callback has returned, with the request lock
\* released once, and the database (enums, members, operand tags, names,
\* types) is as it was when the Lookup was triggered.
C16_CancelledDialogChangesNothing ==
    \A w \in Ids :
        /\ LookupDialogPending(w) =>
               /\ db = worker[w].db0
               /\ locked(HASHDB_REQUEST_LOCK)
        /\ LookupDialogCancelled(w) =>
               /\ db = worker[w].db0
               /\ worker[w].pc = "finally"
               /\ worker[w].releases = 1
               /\ ~locked(HASHDB_REQUEST_LOCK)

\* The collision dialog of a Lookup was cancelled on a database that holds
\* a member
C16_Witness ==
    \E w \in Ids :
        /\ LookupDialogCancelled(w)
        /\ worker[w].done_calls = 1
        /\ db.members # {}

\* A Lookup whose answer holds two matches with different display strings,
\* about to write the one the user selected
CollisionLookup(w) ==
    /\ worker[w].pipeline = "lookup"
    /\ worker[w].pc = "add_enums"
    /\ Len(worker[w].matches) = 2
    /\ display(worker[w].matches[1]) # display(worker[w].matches[2])

\* The user selected the second candidate of the collision
SecondSelected(w) ==
    /\ CollisionLookup(w)
    /\ worker[w].chosen = worker[w].matches[2]

\* The members a step adds to the database
gained == db'.members \ db.members

\* The index under which add_enums inserts base: the smallest one whose
\* name no member of the database has
free_index(base) ==
    CHOOSE i \in 0..(MAXIMUM_ATTEMPTS - 1) :
        /\ ~\E m \in db.members : m.name = <<base, i>>
        /\ \A j \in 0..(i - 1) : \E m \in db.members : m.name = <<base, j>>

SingleMatchLookup(w) ==
    /\ worker[w].pipeline = "lookup"
    /\ worker[w].pc = "add_enums"
    /\ Len(worker[w].matches) = 1
    /\ ~worker[w].matches[1].is_api
    /\ ~\E m \in db.members :
           \/ m.value = worker[w].hash_value
           \/ m.name[1] = string_value(worker[w].matches[1])

\* C18 (SpecData): a Lookup of value v launched with algorithm a queries the
\* service for v XOR mask when XOR is enabled and for v otherwise; when the
\* answer is one string match s, no member has the value or the name yet
\* and the host gives the enum, the write leaves the member (s, v) in the
\* enum named ENUM_PREFIX + '_' + a, and no dialog has been shown.
C18_SingleMatchWritten ==
    [][\A w \in Ids :
          (SingleMatchLookup(w) /\ worker'[w].pc = "make_const_enum") =>
              /\ worker[w].query = query_value(worker[w].hash_value,
                                               worker[w].xor_value)
              /\ worker[w].shown = <<>>
              /\ Member(<<ENUM_PREFIX, worker[w].algorithm>>,
                        <<string_value(worker[w].matches[1]), 0>>,
                        worker[w].hash_value) \in db'.members]_vars

\* The step is a call of add_enums to which the host gave the enum
EnumCalled == enum_call'.enum_id # NoEnum

\* The values of the pairs of a hash_list
values(hash_list) == {hash_list[i][2] : i \in 1..Len(hash_list)}

inserted(k) ==
    Member(enum_call'.enum_name,
           <<enum_call'.hash_list[k][1], enum_call'.attempts[k] - 1>>,
           enum_call'.hash_list[k][2])

\* The members pair k of the call of this step met: those the call found
\* and those it inserted for the pairs before k
met(k) ==
    db.members \cup
        {m \in gained : \E j \in 1..(k - 1) :
                           enum_call'.attempts[j] > 0 /\ m = inserted(j)}

Highlighted ==
    /\ highlight.returned
    /\ highlight.thing.some
    /\ highlight.thing.flags # 0

\* The base the affixes of a text select
affix_base(text) ==
    IF endswith(text, <<"h">>) \/ startswith(text, <<"0", "x">>) THEN 16
    ELSE IF endswith(text, <<"o">>) THEN 8
    ELSE IF endswith(text, <<"b">>) THEN 2
    ELSE 10

\* The characters of a text without the affix that selected the base
affix_rest(text) ==
    IF endswith(text, <<"h">>) THEN drop_last(text)
    ELSE IF startswith(text, <<"0", "x">>) THEN drop_two(text)
    ELSE IF endswith(text, <<"o">>) \/ endswith(text, <<"b">>)
    THEN drop_last(text)
    ELSE text

\* The character is a digit of the base
valid_digit(character, base) ==
    /\ in(character, hexdigits)
    /\ digit_value(character) < base

\* The length of the longest prefix of valid digits
valid_prefix(characters, base) ==
    CHOOSE n \in 0..Len(characters) :
        /\ \A i \in 1..n : valid_digit(characters[i], base)
        /\ n < Len(characters) => ~valid_digit(characters[n + 1], base)

RECURSIVE power(_, _)
power(base, n) == IF n = 0 THEN 1 ELSE base * power(base, n - 1)

\* The number the first n characters denote in the base
RECURSIVE positional(_, _, _)
positional(characters, n, base) ==
    IF n = 0 THEN 0
    ELSE digit_value(Head(characters)) * power(base, n - 1)
            + positional(Tail(characters), n - 1, base)

\* C21 (SpecParse): parse_highlighted_value returns no value when nothing
\* is highlighted; for a highlighted text it returns the value, in the base
\* its affixes select, of the longest prefix of valid digits of what is left
\* of the text without the affix, and no value when that prefix is empty;
\* "41414141h" gives 0x41414141 and "0x1A" gives 26.
C21_LiteralParsing ==
    /\ (highlight.returned /\ ~Highlighted) => highlight.value = NoValue
    /\ Highlighted =>
          LET text == highlight.thing.text
              base == affix_base(text)
              rest == affix_rest(text)
              n == valid_prefix(rest, base)
          IN  /\ n = 0 => highlight.value = NoValue
              /\ n > 0 => highlight.value = positional(rest, n, base)
              /\ text = Sample_41414141h => highlight.value = 1094795585
              /\ text = Sample_0x1A => highlight.value = 26

\* parse_highlighted_value has returned 0x41414141 for "41414141h"
C21_Witness ==
    /\ Highlighted
    /\ highlight.thing.text = Sample_41414141h
    /\ highlight.value = 1094795585

\* C22 (SpecParse): for the highlighted text "123q" parse_highlighted_value
\* returns no value.
C22_NoValueFor123q ==
    (Highlighted /\ highlight.thing.text = Sample_123q) =>
        highlight.value = NoValue

\* C22 (SpecParse): for the highlighted text "123q" parse_highlighted_value
\* returns 123: q is no affix, the text is read as decimal and cut at the q.
C22_DecimalPrefixOf123q ==
    (Highlighted /\ highlight.thing.text = Sample_123q) =>
        highlight.value = 123

\* parse_highlighted_value has returned for the highlighted text "123q"
C22_Witness ==
    /\ Highlighted
    /\ highlight.thing.text = Sample_123q
    /\ highlight.value # NoValue

\* The query of entry k of a Range Scan has timed out: the queries of the
\* entries before k were answered, and the done callback is about to run
ScanTimedOutAt(w, k) ==
    /\ worker[w].pipeline = "scan"
    /\ worker[w].pc = "done_cb"
    /\ worker[w].timed_out
    /\ worker[w].idx = k - 1

\* The enum holds a member with the hash value of the entry
written(entry) == \E m \in db.members : m.value = entry.hash_value

\* C23 (SpecScan): in a Range Scan over 5 values whose query of value 3 times
\* out, values 4 and 5 have not been queried and are not written, and the
\* enum members of values 1 and 2, where their queries gave one match, have
\* been written and are in the enum.
C23_ScanAbortKeepsWritten ==
    \A w \in Ids :
        (ScanTimedOutAt(w, 3) /\ Len(worker[w].entries) = 5) =>
            LET entries == worker[w].entries
            IN  /\ \A i \in 4..5 : entries[i].hashes = <<>> /\ ~written(entries[i])
                /\ \A i \in 1..2 :
                      Len(entries[i].hashes) = 1 => written(entries[i])

\* The request coroutine of a hunt has returned an empty list: no hit, or no
\* hit that the catalog lists
EmptyHunt(wr) ==
    /\ wr.pipeline = "hunt"
    /\ wr.work = "returned"
    /\ ~wr.is_none
    /\ wr.algos = <<>>

\* C24 (Spec): when the request of a hunt ends with an empty list the done
\* callback is invoked and the error callback is not; the done callback
\* leaves HASHDB_ALGORITHM and HASHDB_ALGORITHM_SIZE as they are, releases
\* the request lock once and returns.
C24_EmptyHuntReported ==
    [][\A w \in Ids :
          /\ (worker[w].pc = "target" /\ EmptyHunt(worker'[w])) =>
                /\ worker'[w].pc = "done_cb"
                /\ worker'[w].done_calls = 1
                /\ worker'[w].error_calls = 0
          /\ (worker[w].pc = "done_cb" /\ EmptyHunt(worker[w])
                /\ worker'[w] # worker[w]) =>
                /\ HASHDB_ALGORITHM' = HASHDB_ALGORITHM
                /\ HASHDB_ALGORITHM_SIZE' = HASHDB_ALGORITHM_SIZE
                /\ locked(HASHDB_REQUEST_LOCK)
                /\ ~locked(HASHDB_REQUEST_LOCK')
                /\ worker'[w].pc = "finally"
                /\ worker'[w].releases = 1
                /\ worker'[w].error_calls = 0]_vars

\* The done callback of a hunt has been invoked with the empty result
C24_Witness ==
    \E w \in Ids :
        /\ EmptyHunt(worker[w])
        /\ worker[w].pc = "done_cb"
        /\ worker[w].done_calls = 1
        /\ HASHDB_ALGORITHM # None

\* The request coroutine of a hunt has returned n >= 1 catalog rows
CandidatesFound(wr) ==
    /\ wr.pipeline = "hunt"
    /\ wr.work = "returned"
    /\ ~wr.is_none
    /\ Len(wr.algos) >= 1

\* C25 (Spec): whenever the request of a hunt returns one or more catalog
\* rows the done callback is invoked with them, so that the result dialog
\* comes up; and the Worker thread of such a hunt does not end before the
\* request lock has been released.
C25_HuntPresentation ==
    /\ [][\A w \in Ids :
            (worker[w].pc = "target" /\ CandidatesFound(worker'[w])) =>
                /\ worker'[w].pc = "done_cb"
                /\ worker'[w].done_calls = 1]_vars
    /\ [](\A w \in Ids :
            (CandidatesFound(worker[w]) /\ worker[w].pc = "finally") =>
                worker[w].releases = 1)

\* C26 (SpecWorker): a Worker whose done callback has been invoked never has
\* its error callback invoked for the same task, whatever the done callback
\* raises and whenever a STOP signal's SystemExit arrives.
C26_NoErrorCallbackAfterDone ==
    \A w \in Ids : ~(worker[w].done_calls >= 1 /\ worker[w].error_calls >= 1)

\* C27 (SpecWorker): a signal to a Worker with a coroutine target is a no-op
\* or schedules loop.stop on the Worker's loop; no call of signal on such a
\* Worker gets SystemExit set as the asynchronous exception of its thread.
C27_CooperativeStop ==
    \A w \in Ids :
        worker[w].kind = "coroutine" =>
            /\ ~worker[w].async_exc
            /\ sig.w = w => sig.did # "async_exc"

\* signal(STOP) has just been called on the blocking Worker w and took the
\* branch did of the PyThreadState_SetAsyncExc path
StopOfBlocking(w, did) ==
    /\ worker[w].kind = "blocking"
    /\ sig'.w = w
    /\ sig' # sig
    /\ sig'.signal = "STOP"
    /\ sig'.did = did

\* C28 (SpecWorker): when the injection into a blocking Worker fails (no
\* thread state found, or several modified and cleared) signal returns
\* without joining and the Worker is left as it was, so that the task ends
\* with its usual callback; when it succeeds signal joins the thread, and
\* the wrapper is not left before the error callback has been invoked with
\* the SystemExit.
C28_BestEffortCancellation ==
    /\ [][\A w \in Ids :
            (StopOfBlocking(w, "invalid_thread_id") \/ StopOfBlocking(w, "cleared")) =>
                /\ sig'.returned
                /\ main_join' = 0
                /\ worker'[w] = worker[w]]_vars
    /\ [][\A w \in Ids :
            StopOfBlocking(w, "async_exc") =>
                /\ ~sig'.returned
                /\ main_join' = w]_vars
    /\ [][\A w \in Ids :
            (/\ worker[w].kind = "blocking"
             /\ sig.w = w /\ sig.did = "async_exc" /\ ~sig.returned
             /\ sig.pc \notin {"exiting"}
             /\ worker[w].pc # "exiting"
             /\ worker'[w].pc = "exiting") =>
                /\ worker[w].error_calls = 1
                /\ worker[w].exc = "SystemExit"]_vars

\* C29 (SpecWorker): Worker.start keeps the timeout exactly when the target
\* is a coroutine function and the timeout given is non-zero, and the timer
\* of asyncio.wait_for ends the work of no other Worker: a blocking task
\* started with a timeout, and a coroutine task started with timeout 0, are
\* never ended by a TimeoutError of the Worker.
C29_TimeoutOnlyForCoroutine ==
    /\ [](\A w \in Ids :
            worker[w].pc \in {"started", "loop_set", "target", "done_cb",
                              "error_cb", "finally"} =>
                (worker[w].timeout <=>
                     (worker[w].kind = "coroutine" /\ worker[w].timeout_given # 0)))
    /\ [][\A w \in Ids :
            (worker[w].work # "timeout" /\ worker'[w].work = "timeout") =>
                /\ worker[w].kind = "coroutine"
                /\ worker[w].timeout_given # 0]_vars

\* A blocking Worker started with a non-zero timeout has run its target to
\* completion and its done callback has been invoked
C29_Witness ==
    \E w \in Ids :
        /\ worker[w].kind = "blocking"
        /\ worker[w].timeout_given = HASHDB_REQUEST_TIMEOUT
        /\ ~worker[w].timeout
        /\ worker[w].work = "returned"
        /\ worker[w].pc = "done_cb"

----------------------------------------------------------------------------
\* Stopping a request: the last Lookup of a session, whose Worker a caller
\* on the main thread signals (the plugin has no such caller of its own).
\* Every thread that can take a step eventually takes one: the Worker
\* thread, and the main thread where it serves a closure of execute_sync
\* (the user answers its dialog) or returns from join.

InitStop ==
    /\ \E a \in {<<None, 0>>, <<"crc32", 32>>} :
         /\ HASHDB_ALGORITHM = a[1]
         /\ HASHDB_ALGORITHM_SIZE = a[2]
    /\ HASHDB_REQUEST_LOCK = [locked |-> FALSE, owner |-> 0, error |-> FALSE]
    /\ nTrig = MaxTriggers - 1
    /\ trig = NoTrigger
    /\ worker = [n \in Ids |-> NoWorker]
    /\ net = NoCall
    /\ main_join = 0
    /\ sig = NoSignal
    /\ HASHDB_USE_XOR = FALSE
    /\ HASHDB_XOR_VALUE = 0
    /\ db = Opaque
    /\ enum_call = NoEnumCall
    /\ highlight = NoHighlight
    /\ walk = NoWalk

\* The steps of the Worker thread of a Lookup that need no other thread
LookupThread(w) ==
    \/ WorkerThread(w)
    \/ hash_lookup_request(w)
    \/ hash_lookup_done(w)
    \/ lookup_get_module_hashes(w)
    \/ pipeline_error(w)
    \/ loop_stop(w)
    \/ async_exc_raised(w)

\* The steps of the main thread on behalf of the Worker w: the closures a
\* callback hands to execute_sync, and the return from join
MainThread(w) ==
    \/ lookup_match_select_show(w)
    \/ lookup_add_enums(w)
    \/ lookup_make_const_enum(w)
    \/ lookup_api_import_select_show(w)
    \/ lookup_add_enums_import(w)
    \/ join(w)

NextStop ==
    \/ hash_lookup
    \/ \E w \in Ids :
         \/ client_signal(w)
         \/ LookupThread(w)
         \/ MainThread(w)

SpecStop ==
    /\ InitStop
    /\ [][NextStop]_vars
    /\ \A w \in Ids : WF_vars(LookupThread(w)) /\ WF_vars(MainThread(w))

\* C30 (SpecStop): every signal(STOP) that waits in join eventually
\* returns, and the thread of every Worker that has been sent STOP while
\* alive eventually ends, also when its callback reaches execute_sync after
\* the stop request.
C30_StopReturns ==
    /\ (sig.signal = "STOP" /\ ~sig.returned) ~> sig.returned
    /\ \A w \in Ids :
         (sig.signal = "STOP" /\ sig.w = w /\ sig.did # "not_alive") ~>
             (worker[w].pc = "dead")

\* C31 (SpecRange): every call of scan_range with start < end returns,
\* after at most end - start passes of its loop, and in the list it returns
\* the first entry is at start, each later entry is at the address of the
\* entry before it plus that entry's size, every size is 1, 2, 4 or 8, and
\* every entry is at an address below end.
C31_WalkContiguous ==
    /\ walk.start < walk.end
    /\ ~walk.returned =>
           Len(scan_range(walk.guessed, walk.start, walk.end,
                          walk.convert_values, HASHDB_ALGORITHM_SIZE))
               \in 1..(walk.end - walk.start)
    /\ walk.returned =>
           LET h == walk.hash_values IN
           /\ Len(h) >= 1
           /\ Len(h) <= walk.end - walk.start
           /\ h[1].ea = walk.start
           /\ \A i \in 1..(Len(h) - 1) : h[i + 1].ea = h[i].ea + h[i].size
           /\ \A i \in 1..Len(h) : h[i].size \in {1, 2, 4, 8}
           /\ \A i \in 1..Len(h) : h[i].ea < walk.end

\* A walk of three addresses has returned two entries, the first of two
\* bytes
C31_Witness ==
    /\ walk.returned
    /\ walk.end - walk.start = 3
    /\ Len(walk.hash_values) = 2
    /\ walk.hash_values[1].size = 2
    /\ walk.hash_values[2].ea = walk.start + 2

\* The width in bytes of the integer type declared at an address, 0 where
\* none of the four integer types is guessed there
declared_width(type) ==
    IF type = "__int64" THEN 8
    ELSE IF type = "int" THEN 4
    ELSE IF type = "__int16" THEN 2
    ELSE IF type = "char" THEN 1
    ELSE 0

C33_RetypedBeforeReread ==
    (walk.returned /\ walk.convert_values) =>
        \A i \in 1..Len(walk.hash_values) :
            LET ea == walk.hash_values[i].ea IN
            declared_width(walk.guessed[ea]) = 0 =>
                declared_width(walk.guessed_after[ea]) = HASHDB_ALGORITHM_SIZE \div 8

\* The user has cancelled the collision dialog of an entry of a Range Scan
ScanDialogCancelled(w) ==
    /\ worker[w].pipeline = "scan"
    /\ worker[w].cancelled = "match_select"

\* C34 (SpecData): the step in which the user cancels the collision dialog
\* of an entry of a Range Scan leaves the database as the entries before
\* it made it, ends the callback and releases the request lock, once; from
\* then on the database does not change (no entry is written, retyped,
\* tagged or labelled any more) and the lock is not released again.
C34_CancelledScanStops ==
    /\ [][\A w \in Ids :
            (/\ worker[w].pipeline = "scan"
             /\ worker[w].pc = "scan_match_select_show"
             /\ worker'[w].cancelled = "match_select") =>
                /\ db' = db
                /\ worker'[w].pc = "finally"
                /\ worker[w].releases = 0
                /\ worker'[w].releases = 1
                /\ ~locked(HASHDB_REQUEST_LOCK')]_vars
    /\ [][\A w \in Ids :
            ScanDialogCancelled(w) =>
                /\ db' = db
                /\ worker'[w].pipeline = "scan" => worker'[w].releases = 1]_vars

\* The collision dialog of the second entry of a scan has been cancelled
\* after the first entry was written
C34_Witness ==
    \E w \in Ids :
        /\ ScanDialogCancelled(w)
        /\ worker[w].releases = 1
        /\ db # worker[w].db0
        /\ \E m \in db.members : m \notin worker[w].db0.members

\* C35 (SpecScan): the database is as it was when the Range Scan was
\* triggered until the request coroutine has returned the list with every
\* entry answered; when a query times out the done callback is invoked with
\* no result, the error callback is not invoked, and the callback returns
\* without any change of the database.
C35_QueryBeforeWrite ==
    /\ [](\A w \in Ids :
            worker[w].pipeline = "scan" =>
                /\ db # worker[w].db0 =>
                       /\ worker[w].work = "returned"
                       /\ ~worker[w].timed_out
                       /\ worker[w].done_calls = 1
                /\ worker[w].pc = "target" => db = worker[w].db0
                /\ worker[w].timed_out =>
                       /\ worker[w].is_none
                       /\ worker[w].pc = "done_cb"
                       /\ worker[w].done_calls = 1
                       /\ worker[w].error_calls = 0
                       /\ db = worker[w].db0)
    /\ [][\A w \in Ids :
            (worker[w].pipeline = "scan" /\ worker[w].timed_out) =>
                /\ db' = db
                /\ worker'[w].pc = "finally"]_vars

\* The third query of a scan has timed out after the first two were
\* answered with a match: the done callback is invoked on a database that
\* nothing was written to
C35_Witness ==
    \E w \in Ids :
        /\ ScanTimedOutAt(w, 3)
        /\ worker[w].done_calls = 1
        /\ Len(worker[w].entries[1].hashes) = 1
        /\ Len(worker[w].entries[2].hashes) = 1
        /\ db = EmptyDb

\* The operand n of the item under the cursor is tagged with the enum
tagged(d, n, enum_id) ==
    [ea |-> Here, n |-> n, enum |-> enum_id] \in d.tags

\* C36 (SpecData): for a Lookup about to call make_const_enum in the
\* disassembly view, and every item the cursor can be on: the call tags
\* operand 0 when its value is the matched value, else operand 1 when its
\* value is the matched value; an instruction of which neither operand has
\* the matched value is tagged with the enum all the same; an item that is
\* not code gets operand 0 tagged.
C36_OperandTagging ==
    \A w \in Ids :
        (worker[w].pipeline = "lookup" /\ worker[w].pc = "make_const_enum") =>
            \A item \in Items :
                LET enum_id == worker[w].enum_id
                    value == worker[w].hash_value
                    d == make_const_enum(db, enum_id, value, item)
                IN  /\ (item.is_code /\ item.op0 = value) => tagged(d, 0, enum_id)
                    /\ (item.is_code /\ item.op0 # value /\ item.op1 = value) =>
                           tagged(d, 1, enum_id)
                    /\ (item.is_code /\ item.op0 # value /\ item.op1 # value) =>
                           \E t \in d.tags : t.ea = Here /\ t.enum = enum_id
                    /\ ~item.is_code => tagged(d, 0, enum_id)

\* C37 (SpecEnum): whenever a call of add_enums has returned an enum id, the
\* enum holds a member with the value of every pair of its hash_list, also
\* when the 256 names name, name_1, ..., name_255 of a pair were all taken
\* by members with other values.
C37_SuccessMeansInserted ==
    enum_call.enum_id # NoEnum =>
        \A i \in 1..Len(enum_call.hash_list) :
            get_enum_member(db, enum_call.enum_name, enum_call.hash_list[i][2])

====
